---- MODULE Spec2Model ----
(***************************************************************************)
(* A model of the WoodStain firmware (ewanas/WoodStain).  The repository   *)
(* holds several revisions of one Arduino sketch; each is modelled as a    *)
(* variant of one state machine:                                           *)
(*   "single"    src/unnamed/part_000: one stepper, double-tap strokeWait  *)
(*   "induction" src/WoodStain.ino 1-658: two induction motors, asserts    *)
(*   "stepper"   src/WoodStain.ino 1014-1365: two stepper axes, profiles   *)
(*   "relay"     src/src/WoodStain.ino: horizontal stepper, vertical relay *)
(* The control thread is a pc/stack machine; every digitalRead samples the *)
(* switch levels sw, which the environment changes at any time; every      *)
(* digitalWrite updates out, indexed by physical pin number so that two    *)
(* roles wired to one pin number alias as they do on the board.            *)
(***************************************************************************)
EXTENDS Integers, Sequences, FiniteSets, TLC

VARIABLES
  profiles,       \* the Profile constants of the build, per axis
  variant,        \* which revision of the sketch runs
  pc,             \* position of the control thread
  stack,          \* return positions of the calls in progress
  sw,             \* level of each limit switch (environment), 1 = pressed
  out,            \* level of each output pin, by pin number
  strokes,        \* stroke counters: [horizontal |-> n, vertical |-> n]
  inductionState, \* HORIZONTAL, VERTICAL or NONE (a zeroed global at reset)
  A, B,           \* locals of waitPressAnyOfTwo
  limit,          \* the switch a wait primitive or a move polls
  first,          \* strokeWait: the switch returned by the first wait
  endPoint,       \* stroke: the switch strokeWait returned
  direction,      \* goUntil / transition: commanded direction
  steps,          \* goUntil: step budget, LIMIT = none
  stepsSoFar,     \* goUntil: loop counter; transition: loop counter i
  mot_delay,      \* goUntil: current delay, as a numerator over stepsToStart
  verticalCounter,\* relay variant: counter fed by the encoder interrupt
  boundary,       \* doStrokes: the direction of the pass
  i,              \* waitPressAny: the polling index, modulo len
  p,              \* goUntil: the Profile in use
  taps,           \* history: presses observed during the current strokeWait
  seen,           \* history: last level read of LEFT/RIGHT in that call
  sprayLog,       \* history: valve configuration applied by each stroke
  pulses,         \* history: step pulses issued by the current move
  delays,         \* history: <<first, last, monotone>> of the delays of a move
  clean,          \* history: no read of the limit returned pressed in the move
  reason          \* the message Stop was called with, "" while running

vars == <<variant, profiles, pc, stack, sw, out, strokes, inductionState, A, B, limit,
          first, endPoint, direction, steps, stepsSoFar, mot_delay,
          verticalCounter, boundary, i, p, taps, seen, sprayLog, pulses,
          delays, clean, reason>>

waitVars   == <<A, B, limit, first>>
build == <<variant, profiles>>
motionVars == <<direction, steps, stepsSoFar, mot_delay, verticalCounter,
                boundary, i, p>>
histTap    == <<taps, seen>>
histMove   == <<pulses, delays, clean, reason>>

(***************************************************************************)
(* Bounds of the model.                                                    *)
(***************************************************************************)
\* Strokes taken by the single-stepper variant (MAX = 4 there).
MaxStrokes == 7
\* Steps of one transition: stands for STROKE_GAP (1000), scaled down.
GapSteps == 2
\* Horizontal strokes taken by the induction-motor variant (MAX = 15 there).
MaxStrokesI == 17
\* Vertical strokes taken by the induction-motor variant.
MaxVStrokes == 2
\* Strokes taken by the stepper and relay variants.
MaxStrokesM == 2
\* Pulses of one move that has no step budget.
MaxSteps == 3
\* The profiles of a move: least delay, span of the delays, ramp length.
MaxMinDelay == 1
MaxSpan == 2
MaxRamp == 3

(***************************************************************************)
(* Program constants.                                                      *)
(***************************************************************************)
LOW  == 0
HIGH == 1

UP    == 0
DOWN  == 1
LEFT  == 2
RIGHT == 3

HORIZONTAL == 0
VERTICAL   == 1
NONE       == 2

\* The sentinel step budget of goUntil.
LIMIT == -1

\* Spray thresholds of src/unnamed/part_000.
MIN_S == 2
MAX_S == 4

\* horizontalProfile and verticalProfile, scaled down: the vertical axis has
\* the shorter delays and the longer ramp.
ScaledProfiles ==
  [horizontal |-> [min |-> 1, max |-> 3, stepsToStart |-> 2],
   vertical   |-> [min |-> 1, max |-> 2, stepsToStart |-> 4]]

\* The Profile of a move that is not in progress.
NoProfile == [min |-> 0, max |-> 0, stepsToStart |-> 0]

Switches == {"TOP_LIMIT", "BOTTOM_LIMIT", "LEFT_LIMIT", "RIGHT_LIMIT"}

\* Pin table of src/unnamed/part_000.
PinsSingle ==
  [TOP_SPRAY |-> 3, BOTTOM_SPRAY |-> 4, STROKE_MOTOR |-> 5,
   STEPPER_DIRECTION |-> 6, STEPPER_STEP |-> 7, STATUS_LED |-> 13]

DOWN_DIRECTION == 1
UP_DIRECTION   == 0

(***************************************************************************)
(* The digital I/O surface.                                                *)
(***************************************************************************)
digitalWrite(o, pin, level) == [o EXCEPT ![pin] = level]

digitalRead(s) == sw[s]

\* History of what a call has observed: a press is a read of 1 on a switch
\* whose previous read in this call was 0 (or that was not read before).
seenAfter(sn, s) == [sn EXCEPT ![s] = sw[s]]
tapsAfter(tp, sn, s) == IF sw[s] = 1 /\ sn[s] = 0 THEN Append(tp, s) ELSE tp

NoSeen == [s \in Switches |-> 0]

other(s) ==
  CASE s = "LEFT_LIMIT"   -> "RIGHT_LIMIT"
    [] s = "RIGHT_LIMIT"  -> "LEFT_LIMIT"
    [] s = "TOP_LIMIT"    -> "BOTTOM_LIMIT"
    [] s = "BOTTOM_LIMIT" -> "TOP_LIMIT"

(***************************************************************************)
(* Spray controller.                                                       *)
(***************************************************************************)
turnOffSprays_bottomOnly(o, pins) == digitalWrite(o, pins.BOTTOM_SPRAY, 0)
turnOffSprays(o, pins) ==
  digitalWrite(digitalWrite(o, pins.TOP_SPRAY, 0), pins.BOTTOM_SPRAY, 0)

bothSprays(o, pins) ==
  digitalWrite(digitalWrite(o, pins.TOP_SPRAY, 1), pins.BOTTOM_SPRAY, 1)

bottomSpray(o, pins) ==
  digitalWrite(digitalWrite(o, pins.TOP_SPRAY, 0), pins.BOTTOM_SPRAY, 1)

topSpray(o, pins) ==
  digitalWrite(digitalWrite(o, pins.TOP_SPRAY, 1), pins.BOTTOM_SPRAY, 0)

\* strokeCount++ on the static counter of stroke and horizontalStroke.
postIncrement_lost(n) == n
postIncrement(n) == n + 1

\* The if / else-if chain of stroke, horizontalStroke and stroke(axis).
selectSpray_shifted(o, pins, strokeCount, min, max) ==
  IF strokeCount > min /\ strokeCount <= max THEN bothSprays(o, pins)
  ELSE IF strokeCount <= min THEN topSpray(o, pins)
  ELSE IF strokeCount > max THEN bottomSpray(o, pins)
  ELSE o
selectSpray(o, pins, strokeCount, min, max) ==
  IF strokeCount >= min /\ strokeCount <= max THEN bothSprays(o, pins)
  ELSE IF strokeCount < min THEN topSpray(o, pins)
  ELSE IF strokeCount > max THEN bottomSpray(o, pins)
  ELSE o

\* The valve configuration the two valve outputs show.
SprayConfiguration(o, pins) ==
  CASE o[pins.TOP_SPRAY] = 1 /\ o[pins.BOTTOM_SPRAY] = 0 -> "TopOnly"
    [] o[pins.TOP_SPRAY] = 1 /\ o[pins.BOTTOM_SPRAY] = 1 -> "Both"
    [] o[pins.TOP_SPRAY] = 0 /\ o[pins.BOTTOM_SPRAY] = 1 -> "BottomOnly"
    [] OTHER -> "Off"

(***************************************************************************)
(* The environment: a limit switch changes level at any time.              *)
(***************************************************************************)
EnvSwitches ==
  CASE variant = "single" -> {"TOP_LIMIT", "LEFT_LIMIT", "RIGHT_LIMIT"}
    [] OTHER -> Switches

Env ==
  /\ \E s \in EnvSwitches : sw' = [sw EXCEPT ![s] = 1 - sw[s]]
  /\ UNCHANGED <<build, pc, stack, out, strokes, inductionState, A, B,
                 limit, first, endPoint, direction, steps, stepsSoFar,
                 mot_delay, verticalCounter, boundary, i, p, taps, seen,
                 sprayLog, pulses, delays, clean, reason>>

(***************************************************************************)
(* Variant "single": src/unnamed/part_000.                                 *)
(***************************************************************************)
InitCommon ==
  /\ stack = <<>>
  /\ sw \in [Switches -> {0}]
  /\ strokes = [horizontal |-> 0, vertical |-> 0]
  /\ inductionState = 0
  /\ A = 0 /\ B = 0
  /\ limit = "NONE" /\ first = "NONE" /\ endPoint = "NONE"
  /\ direction = UP /\ steps = LIMIT /\ stepsSoFar = 0 /\ mot_delay = 0
  /\ verticalCounter = 0
  /\ boundary = UP /\ i = 0 /\ p = NoProfile
  /\ taps = <<>> /\ seen = NoSeen
  /\ sprayLog = <<>>
  /\ pulses = 0 /\ delays = <<>> /\ clean = TRUE
  /\ reason = ""

InitSingle ==
  /\ variant = "single"
  /\ pc = "loop"
  /\ out = [pin \in {3, 4, 5, 6, 7, 13} |-> LOW]
  /\ profiles = ScaledProfiles
  /\ InitCommon

\* loop(): the reset (goToBottom is commented out in this revision).
S_loop ==
  /\ variant = "single" /\ pc = "loop"
  /\ out' = digitalWrite(out, PinsSingle.STROKE_MOTOR, LOW)
  /\ pc' = "paint"
  /\ UNCHANGED <<build, stack, sw, strokes, inductionState, waitVars,
                 endPoint, motionVars, histTap, sprayLog, histMove>>

\* loop(): while (!digitalRead(TOP_LIMIT)) { stroke(); transition(); }
S_paint ==
  /\ variant = "single" /\ pc = "paint"
  /\ IF digitalRead("TOP_LIMIT") = 1
       THEN pc' = "hang_high" /\ UNCHANGED <<first, taps, seen>>
       ELSE /\ Len(sprayLog) < MaxStrokes
            /\ pc' = "waitPressAny"
            /\ first' = "NONE" /\ taps' = <<>> /\ seen' = NoSeen
  /\ UNCHANGED <<build, stack, sw, out, strokes, inductionState, A, B,
                 limit, endPoint, motionVars, sprayLog, histMove>>

\* waitPressAny(): one turn of
\*   while (!(left = digitalRead(LEFT_LIMIT)) && !(digitalRead(RIGHT_LIMIT)));
\* and, once it ends, return left ? LEFT_LIMIT : RIGHT_LIMIT to strokeWait,
\* which then waits for that press to end.
S_waitPressAny ==
  /\ variant = "single" /\ pc = "waitPressAny"
  /\ LET left == digitalRead("LEFT_LIMIT")
         sn1  == seenAfter(seen, "LEFT_LIMIT")
         tp1  == tapsAfter(taps, seen, "LEFT_LIMIT")
     IN IF left = 1
          THEN /\ seen' = sn1 /\ taps' = tp1
               /\ limit' = "LEFT_LIMIT"
               /\ pc' = "strokeWait_pressed"
          ELSE /\ seen' = seenAfter(sn1, "RIGHT_LIMIT")
               /\ taps' = tapsAfter(tp1, sn1, "RIGHT_LIMIT")
               /\ IF digitalRead("RIGHT_LIMIT") = 1
                    THEN limit' = "RIGHT_LIMIT" /\ pc' = "strokeWait_pressed"
                    ELSE UNCHANGED <<limit, pc>>
  /\ UNCHANGED <<build, stack, sw, out, strokes, inductionState, A, B,
                 first, endPoint, motionVars, sprayLog, histMove>>

\* strokeWait(): the branch taken on the value waitPressAny returned.
\*  first call:  remember it, wait for the press to end, wait again;
\*  second call: the same switch -> wait for the release, end at the other;
\*               the other switch -> waitSecondRelease on it, end at first.
S_strokeWait_pressed ==
  /\ variant = "single" /\ pc = "strokeWait_pressed"
  /\ IF first = "NONE"
       THEN first' = limit /\ pc' = "strokeWait_release1"
       ELSE /\ UNCHANGED first
            /\ IF limit = first
                 THEN pc' = "strokeWait_release2"
                 ELSE pc' = "waitSecondRelease_1"
  /\ UNCHANGED <<build, stack, sw, out, strokes, inductionState, A, B,
                 limit, endPoint, motionVars, histTap, sprayLog, histMove>>

\* while (digitalRead(limit)); with the position that follows it.
S_whileRead(at, next) ==
  /\ variant = "single" /\ pc = at
  /\ seen' = seenAfter(seen, limit)
  /\ taps' = tapsAfter(taps, seen, limit)
  /\ pc' = IF digitalRead(limit) = 1 THEN at ELSE next
  /\ UNCHANGED <<build, stack, sw, out, strokes, inductionState, waitVars,
                 endPoint, motionVars, sprayLog, histMove>>

\* while (!digitalRead(limit)); with the position that follows it.
S_whileNotRead(at, next) ==
  /\ variant = "single" /\ pc = at
  /\ seen' = seenAfter(seen, limit)
  /\ taps' = tapsAfter(taps, seen, limit)
  /\ pc' = IF digitalRead(limit) = 1 THEN next ELSE at
  /\ UNCHANGED <<build, stack, sw, out, strokes, inductionState, waitVars,
                 endPoint, motionVars, sprayLog, histMove>>

S_strokeWait_release1 == S_whileRead("strokeWait_release1", "waitPressAny")

\* The double tap: return the opposite switch.
S_strokeWait_release2 ==
  /\ variant = "single" /\ pc = "strokeWait_release2"
  /\ seen' = seenAfter(seen, limit)
  /\ taps' = tapsAfter(taps, seen, limit)
  /\ IF digitalRead(limit) = 1
       THEN UNCHANGED <<pc, endPoint>>
       ELSE pc' = "stroke_select" /\ endPoint' = other(first)
  /\ UNCHANGED <<build, stack, sw, out, strokes, inductionState, waitVars,
                 motionVars, sprayLog, histMove>>

S_waitSecondRelease_1 ==
  S_whileRead("waitSecondRelease_1", "waitSecondRelease_2")

S_waitSecondRelease_2 ==
  S_whileNotRead("waitSecondRelease_2", "waitSecondRelease_3")

\* The last loop of waitSecondRelease, then strokeWait returns first.
S_waitSecondRelease_3 ==
  /\ variant = "single" /\ pc = "waitSecondRelease_3"
  /\ seen' = seenAfter(seen, limit)
  /\ taps' = tapsAfter(taps, seen, limit)
  /\ IF digitalRead(limit) = 1
       THEN UNCHANGED <<pc, endPoint>>
       ELSE pc' = "stroke_select" /\ endPoint' = first
  /\ UNCHANGED <<build, stack, sw, out, strokes, inductionState, waitVars,
                 motionVars, sprayLog, histMove>>

\* stroke(): the valves for this stroke, from the static strokeCount.
S_stroke_select ==
  /\ variant = "single" /\ pc = "stroke_select"
  /\ out' = selectSpray(out, PinsSingle, strokes.horizontal, MIN_S, MAX_S)
  /\ sprayLog' = Append(sprayLog, SprayConfiguration(out', PinsSingle))
  /\ pc' = "stroke_go"
  /\ taps' = <<>> /\ seen' = NoSeen
  /\ UNCHANGED <<build, stack, sw, strokes, inductionState, waitVars,
                 endPoint, motionVars, histMove>>

\* stroke(): while (!digitalRead(endPoint)); then turnOffSprays() and
\* strokeCount++; loop() goes on to transition(), which starts with
\* turnOffSprays().
S_stroke_go ==
  /\ variant = "single" /\ pc = "stroke_go"
  /\ digitalRead(endPoint) = 1
  /\ out' = turnOffSprays(turnOffSprays(out, PinsSingle), PinsSingle)
  /\ strokes' = [strokes EXCEPT !.horizontal = postIncrement(@)]
  /\ stepsSoFar' = 0
  /\ pc' = "transition"
  /\ UNCHANGED <<build, stack, sw, inductionState, waitVars, endPoint,
                 direction, steps, mot_delay, verticalCounter, boundary, i, p,
                 histTap,
                 sprayLog, histMove>>

\* The goDown macro: direction, then one pulse on the step output.
goDown_S(o) ==
  digitalWrite(
    digitalWrite(
      digitalWrite(o, PinsSingle.STEPPER_DIRECTION, DOWN_DIRECTION),
      PinsSingle.STEPPER_STEP, 1),
    PinsSingle.STEPPER_STEP, 0)

\* transition(): for (i = 0; i < STROKE_GAP; i++) {
\*   if (digitalRead(TOP_LIMIT)) break; goDown; }
S_transition_strict ==
  /\ variant = "single" /\ pc = "transition"
  /\ IF stepsSoFar < GapSteps
       THEN IF digitalRead("TOP_LIMIT") = 1
              THEN /\ pc' = "Stop" /\ reason' = "Limit reached before finishing stroke!"
                   /\ UNCHANGED <<out, stepsSoFar>>
              ELSE /\ out' = goDown_S(out)
                   /\ stepsSoFar' = stepsSoFar + 1
                   /\ UNCHANGED <<pc, reason>>
       ELSE /\ pc' = "paint"
            /\ stepsSoFar' = 0
            /\ UNCHANGED <<out, reason>>
  /\ UNCHANGED <<build, stack, sw, strokes, inductionState, waitVars,
                 endPoint, direction, steps, mot_delay, verticalCounter,
                 boundary, i, p, histTap, sprayLog, pulses, delays, clean>>
S_transition ==
  /\ variant = "single" /\ pc = "transition"
  /\ IF stepsSoFar < GapSteps /\ digitalRead("TOP_LIMIT") = 0
       THEN /\ out' = goDown_S(out)
            /\ stepsSoFar' = stepsSoFar + 1
            /\ UNCHANGED pc
       ELSE /\ pc' = "paint"
            /\ stepsSoFar' = 0
            /\ UNCHANGED out
  /\ UNCHANGED <<build, stack, sw, strokes, inductionState, waitVars,
                 endPoint, direction, steps, mot_delay, verticalCounter,
                 boundary, i, p, histTap, sprayLog, histMove>>

\* loop(): while (1) { digitalWrite(13, HIGH); digitalWrite(13, LOW); }
S_hang_high ==
  /\ variant = "single" /\ pc = "hang_high"
  /\ out' = digitalWrite(out, PinsSingle.STATUS_LED, HIGH)
  /\ pc' = "hang_low"
  /\ UNCHANGED <<build, stack, sw, strokes, inductionState, waitVars,
                 endPoint, motionVars, histTap, sprayLog, histMove>>

S_hang_low ==
  /\ variant = "single" /\ pc = "hang_low"
  /\ out' = digitalWrite(out, PinsSingle.STATUS_LED, LOW)
  /\ pc' = "hang_high"
  /\ UNCHANGED <<build, stack, sw, strokes, inductionState, waitVars,
                 endPoint, motionVars, histTap, sprayLog, histMove>>

NextSingle ==
  \/ S_loop
  \/ S_paint
  \/ S_waitPressAny
  \/ S_strokeWait_pressed
  \/ S_strokeWait_release1
  \/ S_strokeWait_release2
  \/ S_waitSecondRelease_1
  \/ S_waitSecondRelease_2
  \/ S_waitSecondRelease_3
  \/ S_stroke_select
  \/ S_stroke_go
  \/ S_transition
  \/ S_hang_high
  \/ S_hang_low
  \/ Env

SpecSingle == InitSingle /\ [][NextSingle]_vars

(***************************************************************************)
(* Calls and returns of the control thread.                                *)
(***************************************************************************)
\* Return from the current call: resume at the position on top of the stack.
Return == pc' = Head(stack) /\ stack' = Tail(stack)

\* Stop(reason) is called: control never comes back to the caller.
CallStop(r) == pc' = "Stop" /\ stack' = <<>> /\ reason' = r

(***************************************************************************)
(* Limit / direction mapping.                                              *)
(***************************************************************************)
\* getLimit: the switch of a direction; "Stop" stands for the default case.
getLimit_swapped(d) ==
  CASE d = LEFT  -> "LEFT_LIMIT"
    [] d = RIGHT -> "RIGHT_LIMIT"
    [] d = UP    -> "BOTTOM_LIMIT"
    [] d = DOWN  -> "TOP_LIMIT"
    [] OTHER     -> "Stop"
getLimit(d) ==
  CASE d = LEFT  -> "LEFT_LIMIT"
    [] d = RIGHT -> "RIGHT_LIMIT"
    [] d = UP    -> "TOP_LIMIT"
    [] d = DOWN  -> "BOTTOM_LIMIT"
    [] OTHER     -> "Stop"

\* getDirection: the direction of a switch; -1 stands for the default case.
getDirection_defaultUp(l) ==
  CASE l = "LEFT_LIMIT"   -> LEFT
    [] l = "RIGHT_LIMIT"  -> RIGHT
    [] l = "BOTTOM_LIMIT" -> DOWN
    [] OTHER              -> UP
getDirection(l) ==
  CASE l = "LEFT_LIMIT"   -> LEFT
    [] l = "RIGHT_LIMIT"  -> RIGHT
    [] l = "BOTTOM_LIMIT" -> DOWN
    [] l = "TOP_LIMIT"    -> UP
    [] OTHER              -> -1

isVertical(d) == d = UP \/ d = DOWN

(***************************************************************************)
(* Variant "induction": src/WoodStain.ino lines 1-658.                     *)
(***************************************************************************)
\* Spray thresholds and pin table of the induction-motor revision.  The
\* stepper and induction-motor roles share the pin numbers 10 and 11 there.
MIN_I == 2
MAX_I == 15

PinsInduction ==
  [TOP_SPRAY |-> 7, BOTTOM_SPRAY |-> 8,
   HORIZONTAL_MOTOR_SELECT |-> 10, VERTICAL_MOTOR_SELECT |-> 10,
   MOTOR_STATE_PIN |-> 11,
   VERTICAL_STEPPER_DIRECTION |-> 11, VERTICAL_STEPPER_STEP |-> 10,
   HORIZONTAL_STEPPER_DIRECTION |-> 11, HORIZONTAL_STEPPER_STEP |-> 10,
   STATUS_LED |-> 13]

LEFT_DIRECTION  == 1
RIGHT_DIRECTION == 0

InitInduction ==
  /\ variant = "induction"
  /\ pc = "I_loop"
  /\ out = [pin \in {7, 8, 10, 11, 13} |-> LOW]
  /\ profiles = ScaledProfiles
  /\ InitCommon

\* One pulse of a stepper: the goLeft / goRight / goUp / goDown macros.
\* pulseHigh is the outputs after the first two writes, while the step
\* output is HIGH; pulse is the outputs after the third.
pulseHigh(o, dirPin, dirLevel, stepPin) ==
  digitalWrite(digitalWrite(o, dirPin, dirLevel), stepPin, 1)

pulse(o, dirPin, dirLevel, stepPin) ==
  digitalWrite(pulseHigh(o, dirPin, dirLevel, stepPin), stepPin, 0)

\* go(direction) of the induction-motor revision.
go_I(o, d) ==
  CASE d = LEFT  -> pulse(o, PinsInduction.HORIZONTAL_STEPPER_DIRECTION,
                          LEFT_DIRECTION, PinsInduction.HORIZONTAL_STEPPER_STEP)
    [] d = RIGHT -> pulse(o, PinsInduction.HORIZONTAL_STEPPER_DIRECTION,
                          RIGHT_DIRECTION, PinsInduction.HORIZONTAL_STEPPER_STEP)
    [] d = UP    -> pulse(o, PinsInduction.VERTICAL_STEPPER_DIRECTION,
                          UP_DIRECTION, PinsInduction.VERTICAL_STEPPER_STEP)
    [] d = DOWN  -> pulse(o, PinsInduction.VERTICAL_STEPPER_DIRECTION,
                          DOWN_DIRECTION, PinsInduction.VERTICAL_STEPPER_STEP)
    [] OTHER     -> o

\* turnOffMotors() of the induction-motor revision (inductionState = NONE is
\* set by the action that uses it).
turnOffMotors_I(o) == digitalWrite(o, PinsInduction.MOTOR_STATE_PIN, LOW)

turnOffAll_I(o) == turnOffSprays(turnOffMotors_I(o), PinsInduction)

horizontalMotor(o) ==
  digitalWrite(
    digitalWrite(
      digitalWrite(
        digitalWrite(o, PinsInduction.MOTOR_STATE_PIN, LOW),
        PinsInduction.HORIZONTAL_MOTOR_SELECT, HIGH),
      PinsInduction.VERTICAL_MOTOR_SELECT, LOW),
    PinsInduction.MOTOR_STATE_PIN, HIGH)

\* loop(): turnOffAll(); goUntil(DOWN) ... and, after doStrokes(UP),
\* turnOffAll(); goUntil(LEFT) ...
I_loop ==
  /\ variant = "induction" /\ pc \in {"I_loop", "I_reset2"}
  /\ out' = turnOffAll_I(out)
  /\ inductionState' = NONE
  /\ direction' = IF pc = "I_loop" THEN DOWN ELSE LEFT
  /\ limit' = getLimit(direction')
  /\ stack' = <<IF pc = "I_loop" THEN "I_horizontalMotor" ELSE "I_vertical">>
  /\ pc' = "I_goUntil"
  /\ UNCHANGED <<build, sw, strokes, A, B, first, endPoint, steps,
                 stepsSoFar, mot_delay, verticalCounter, boundary, i, p,
                 histTap, sprayLog, histMove>>

\* goUntil(direction): while (!digitalRead(limit)) go(direction);
I_goUntil ==
  /\ variant = "induction" /\ pc = "I_goUntil"
  /\ IF digitalRead(limit) = 0
       THEN out' = go_I(out, direction) /\ UNCHANGED <<pc, stack>>
       ELSE Return /\ UNCHANGED out
  /\ UNCHANGED <<build, sw, strokes, inductionState, waitVars, endPoint,
                 motionVars, histTap, sprayLog, histMove>>

\* loop(): horizontalMotor(); doStrokes(UP);
I_horizontalMotor ==
  /\ variant = "induction" /\ pc = "I_horizontalMotor"
  /\ out' = horizontalMotor(out)
  /\ inductionState' = HORIZONTAL
  /\ direction' = UP
  /\ pc' = "I_doStrokes"
  /\ UNCHANGED <<build, stack, sw, strokes, waitVars, endPoint, steps,
                 stepsSoFar, mot_delay, verticalCounter, boundary, i, p,
                 histTap, sprayLog, histMove>>

\* loop(): doStrokes(RIGHT) follows goUntil(LEFT) at once: this revision
\* calls no verticalMotor() here.
I_vertical ==
  /\ variant = "induction" /\ pc = "I_vertical"
  /\ direction' = RIGHT
  /\ pc' = "I_doStrokes"
  /\ UNCHANGED <<build, stack, sw, out, strokes, inductionState, waitVars,
                 endPoint, steps, stepsSoFar, mot_delay, verticalCounter,
                 boundary, i, p, histTap, sprayLog, histMove>>

\* The two switches a stroke of doStrokes(direction) waits on.
strokeA(d) == IF isVertical(d) THEN "LEFT_LIMIT" ELSE "TOP_LIMIT"
strokeB_same(d) == IF isVertical(d) THEN "LEFT_LIMIT" ELSE "TOP_LIMIT"
strokeB(d) == IF isVertical(d) THEN "RIGHT_LIMIT" ELSE "BOTTOM_LIMIT"

\* doStrokes(direction): while (!digitalRead(limit)) { stroke; transition }
\* and what loop() does once doStrokes returns.
I_doStrokes ==
  /\ variant = "induction" /\ pc = "I_doStrokes"
  /\ IF digitalRead(getLimit(direction)) = 1
       THEN /\ IF direction = UP
                 THEN pc' = "I_reset2" /\ UNCHANGED <<stack, reason>>
                 ELSE CallStop("Done painting!")
            /\ UNCHANGED <<first, taps, seen>>
       ELSE /\ IF isVertical(direction)
                 THEN Len(sprayLog) < MaxStrokesI
                 ELSE strokes.vertical < MaxVStrokes
            /\ pc' = "waitPressAnyOfTwo"
            /\ stack' = <<IF isVertical(direction)
                            THEN "I_horizontalStrokeWait"
                            ELSE "I_verticalStroke">>
            /\ first' = IF isVertical(direction) THEN "PENDING" ELSE "NONE"
            /\ taps' = <<>> /\ seen' = NoSeen
            /\ UNCHANGED reason
  /\ UNCHANGED <<build, sw, out, strokes, inductionState, A, B, limit,
                 endPoint, motionVars, sprayLog, pulses, delays, clean>>

(***************************************************************************)
(* Debounce and edge-wait primitives (the assert-checked ones).            *)
(***************************************************************************)
\* What a read of switch s adds to the history while a strokeWait runs.
seenRead(sn, s) == IF first = "NONE" THEN sn ELSE seenAfter(sn, s)
tapsRead(tp, sn, s) == IF first = "NONE" THEN tp ELSE tapsAfter(tp, sn, s)

\* waitPressAnyOfTwo(a, b): the entry assert,
\*   assert(!(digitalRead(a) || digitalRead(b)), ...)
\* b is read only when a reads 0.  The locals A and B are not initialised:
\* A is assigned before every use, B holds any value until it is assigned.
waitPressAnyOfTwo ==
  /\ pc = "waitPressAnyOfTwo"
  /\ LET a   == strokeA(direction)
         b   == strokeB(direction)
         sn1 == seenRead(seen, a)
         tp1 == tapsRead(taps, seen, a)
     IN IF digitalRead(a) = 1
          THEN /\ seen' = sn1 /\ taps' = tp1
               /\ CallStop("Waiting for buttons to be pressed when a button is already pressed")
               /\ UNCHANGED <<A, B>>
          ELSE /\ seen' = seenRead(sn1, b)
               /\ taps' = tapsRead(tp1, sn1, b)
               /\ IF digitalRead(b) = 1
                    THEN /\ CallStop("Waiting for buttons to be pressed when a button is already pressed")
                         /\ UNCHANGED <<A, B>>
                    ELSE /\ pc' = "waitPressAnyOfTwo_poll"
                         /\ A' = 0
                         /\ B' \in {0, 1}
                         /\ UNCHANGED <<stack, reason>>
  /\ UNCHANGED <<build, sw, out, strokes, inductionState, limit, first,
                 endPoint, motionVars, sprayLog, pulses, delays, clean>>

\* The value of   A && B   after the polling loop.
bothPressed(x, y) == x = 1 /\ y = 1

\* One turn of  while (!((A = digitalRead(a)) || (B = digitalRead(b))));
\* and, when it ends,  if (A && B) Stop(...).
waitPressAnyOfTwo_poll ==
  /\ pc = "waitPressAnyOfTwo_poll"
  /\ LET a   == strokeA(direction)
         b   == strokeB(direction)
         sn1 == seenRead(seen, a)
         tp1 == tapsRead(taps, seen, a)
     IN /\ A' = digitalRead(a)
        /\ IF A' = 1
             THEN B' = B /\ seen' = sn1 /\ taps' = tp1
             ELSE /\ B' = digitalRead(b)
                  /\ seen' = seenRead(sn1, b)
                  /\ taps' = tapsRead(tp1, sn1, b)
        /\ IF A' = 0 /\ B' = 0
             THEN UNCHANGED <<pc, stack, reason>>
             ELSE IF bothPressed(A', B')
                    THEN CallStop("Both the A and B limits are pressed. Fix that!")
                    ELSE pc' = "waitPressAnyOfTwo_release"
                         /\ UNCHANGED <<stack, reason>>
  /\ UNCHANGED <<build, sw, out, strokes, inductionState, limit, first,
                 endPoint, motionVars, sprayLog, pulses, delays, clean>>

\* if (A) while (digitalRead(a)); else if (B) while (digitalRead(b));
\* then return A ? a : b.
waitPressAnyOfTwo_release ==
  /\ pc = "waitPressAnyOfTwo_release"
  /\ LET s == IF A = 1 THEN strokeA(direction) ELSE strokeB(direction)
     IN /\ seen' = seenRead(seen, s)
        /\ taps' = tapsRead(taps, seen, s)
        /\ IF digitalRead(s) = 1
             THEN UNCHANGED <<pc, stack, limit>>
             ELSE Return /\ limit' = s
  /\ UNCHANGED <<build, sw, out, strokes, inductionState, A, B, first,
                 endPoint, motionVars, sprayLog, histMove>>

\* waitRelease(limit): assert(digitalRead(limit), ...).
waitRelease ==
  /\ pc = "waitRelease"
  /\ seen' = seenRead(seen, limit)
  /\ taps' = tapsRead(taps, seen, limit)
  /\ IF digitalRead(limit) = 1
       THEN pc' = "waitRelease_loop" /\ UNCHANGED <<stack, reason>>
       ELSE CallStop("Waiting for an unpressed button to be released...Stopping")
  /\ UNCHANGED <<build, sw, out, strokes, inductionState, waitVars,
                 endPoint, motionVars, sprayLog, pulses, delays, clean>>

\* waitRelease(limit): while (digitalRead(limit)); delay(DEBOUNCE_TIME);
waitRelease_loop ==
  /\ pc = "waitRelease_loop"
  /\ seen' = seenRead(seen, limit)
  /\ taps' = tapsRead(taps, seen, limit)
  /\ IF digitalRead(limit) = 1
       THEN UNCHANGED <<pc, stack>>
       ELSE Return
  /\ UNCHANGED <<build, sw, out, strokes, inductionState, waitVars,
                 endPoint, motionVars, sprayLog, histMove>>

\* Whether waitPress asserts that the switch reads unpressed: it does in
\* src/WoodStain.ino 336-342; the assert is commented out in src/limits.h.
waitPressAsserts_always == TRUE
waitPressAsserts_never == FALSE
waitPressAsserts == variant = "induction"

\* waitPress(limit): assert(!digitalRead(limit), ...) where it is compiled.
waitPress ==
  /\ pc = "waitPress"
  /\ IF waitPressAsserts
       THEN /\ seen' = seenRead(seen, limit)
            /\ taps' = tapsRead(taps, seen, limit)
            /\ IF digitalRead(limit) = 0
                 THEN pc' = "waitPress_loop" /\ UNCHANGED <<stack, reason>>
                 ELSE CallStop("Waiting for a pressed button to be pressed...Stopping")
       ELSE /\ pc' = "waitPress_loop"
            /\ UNCHANGED <<stack, reason, seen, taps>>
  /\ UNCHANGED <<build, sw, out, strokes, inductionState, waitVars,
                 endPoint, motionVars, sprayLog, pulses, delays, clean>>

\* waitPress(limit): while (!digitalRead(limit)); delay(DEBOUNCE_TIME);
waitPress_loop ==
  /\ pc = "waitPress_loop"
  /\ seen' = seenRead(seen, limit)
  /\ taps' = tapsRead(taps, seen, limit)
  /\ IF digitalRead(limit) = 0
       THEN UNCHANGED <<pc, stack>>
       ELSE Return
  /\ UNCHANGED <<build, sw, out, strokes, inductionState, waitVars,
                 endPoint, motionVars, sprayLog, histMove>>

\* waitSecondRelease(limit): waitRelease; waitPress; waitRelease; then
\* resume at `after`.
waitSecondReleaseStack_once(after) == <<after>>
waitSecondReleaseStack(after) == <<"waitPress", "waitRelease", after>>

(***************************************************************************)
(* Stroke sequencer of the induction-motor revision.                       *)
(***************************************************************************)
\* horizontalStrokeWait(): what follows each waitPressAnyOfTwo.
I_horizontalStrokeWait ==
  /\ variant = "induction" /\ pc = "I_horizontalStrokeWait"
  /\ IF first = "PENDING"
       THEN /\ first' = limit
            /\ pc' = "waitPressAnyOfTwo"
            /\ stack' = <<"I_horizontalStrokeWait">>
            /\ UNCHANGED endPoint
       ELSE IF limit = first
              THEN /\ endPoint' = other(first)
                   /\ pc' = "I_horizontalStroke"
                   /\ UNCHANGED <<first, stack>>
              ELSE /\ endPoint' = first
                   /\ pc' = "waitRelease"
                   /\ stack' = waitSecondReleaseStack("I_horizontalStroke")
                   /\ UNCHANGED first
  /\ UNCHANGED <<build, sw, out, strokes, inductionState, A, B, limit,
                 motionVars, histTap, sprayLog, histMove>>

\* horizontalStroke(): the valves from the static strokeCount, then
\* waitPress(endPoint).
I_horizontalStroke ==
  /\ variant = "induction" /\ pc = "I_horizontalStroke"
  /\ out' = selectSpray(out, PinsInduction, strokes.horizontal, MIN_I, MAX_I)
  /\ sprayLog' = Append(sprayLog, SprayConfiguration(out', PinsInduction))
  /\ limit' = endPoint
  /\ first' = "NONE" /\ taps' = <<>> /\ seen' = NoSeen
  /\ pc' = "waitPress"
  /\ stack' = <<"I_strokeDone">>
  /\ UNCHANGED <<build, sw, strokes, inductionState, A, B, endPoint,
                 motionVars, histMove>>

\* verticalStroke(): limit = verticalStrokeWait(); bothSprays();
\* waitPress(limit).
I_verticalStroke ==
  /\ variant = "induction" /\ pc = "I_verticalStroke"
  /\ endPoint' = IF limit = "TOP_LIMIT" THEN "BOTTOM_LIMIT" ELSE "TOP_LIMIT"
  /\ limit' = endPoint'
  /\ out' = bothSprays(out, PinsInduction)
  /\ pc' = "waitPress"
  /\ stack' = <<"I_strokeDone">>
  /\ UNCHANGED <<build, sw, strokes, inductionState, A, B, first,
                 motionVars, histTap, sprayLog, histMove>>

\* The assert macro is  if (!c) { Stop(e); }  with c pasted unparenthesised:
\* the two asserts of transition() expand to these conditions.
transitionAssert1_parenthesised(d, state) ==
  ~ ((d = UP \/ d = DOWN) /\ state = HORIZONTAL)
transitionAssert1(d, state) ==
  (~(d = UP \/ d = DOWN)) /\ state = HORIZONTAL
transitionAssert2(d, state) ==
  (~(d = LEFT \/ d = RIGHT)) /\ state = VERTICAL

\* The end of a stroke: turnOffSprays(); strokeCount++; and the start of
\* transition(direction): the asserts, getLimit, turnOffSprays().
I_strokeDone ==
  /\ variant = "induction" /\ pc = "I_strokeDone"
  /\ strokes' = IF isVertical(direction)
                  THEN [strokes EXCEPT !.horizontal = postIncrement(@)]
                  ELSE [strokes EXCEPT !.vertical = postIncrement(@)]
  /\ out' = turnOffSprays(out, PinsInduction)
  /\ IF transitionAssert1(direction, inductionState)
       THEN CallStop("Transitioning vertically while the vertical induction motor is on")
            /\ UNCHANGED <<limit, stepsSoFar>>
       ELSE IF transitionAssert2(direction, inductionState)
              THEN CallStop("Transitioning horizontally while the horizontal direction motor is on")
                   /\ UNCHANGED <<limit, stepsSoFar>>
              ELSE /\ limit' = getLimit(direction)
                   /\ stepsSoFar' = 0
                   /\ pc' = "I_transition"
                   /\ UNCHANGED <<stack, reason>>
  /\ UNCHANGED <<build, sw, inductionState, A, B, first, endPoint,
                 direction, steps, mot_delay, verticalCounter, boundary, i, p,
                 histTap,
                 sprayLog, pulses, delays, clean>>

\* transition(direction): for (i = 0; i < STROKE_GAP; i++) {
\*   if (digitalRead(limit)) Stop(...); go(direction); }
I_transition_lenient ==
  /\ variant = "induction" /\ pc = "I_transition"
  /\ IF stepsSoFar < GapSteps /\ digitalRead(limit) = 0
       THEN /\ out' = go_I(out, direction)
            /\ stepsSoFar' = stepsSoFar + 1
            /\ UNCHANGED pc
       ELSE /\ pc' = "I_doStrokes"
            /\ stepsSoFar' = 0
            /\ UNCHANGED out
  /\ UNCHANGED <<build, stack, sw, strokes, inductionState, waitVars,
                 endPoint, direction, steps, mot_delay, verticalCounter,
                 boundary, i, p, histTap, sprayLog, histMove>>
I_transition ==
  /\ variant = "induction" /\ pc = "I_transition"
  /\ IF stepsSoFar < GapSteps
       THEN IF digitalRead(limit) = 1
              THEN /\ CallStop("Limit reached before finishing transition!")
                   /\ UNCHANGED <<out, stepsSoFar>>
              ELSE /\ out' = go_I(out, direction)
                   /\ stepsSoFar' = stepsSoFar + 1
                   /\ UNCHANGED <<pc, stack, reason>>
       ELSE /\ pc' = "I_doStrokes"
            /\ stepsSoFar' = 0
            /\ UNCHANGED <<out, stack, reason>>
  /\ UNCHANGED <<build, sw, strokes, inductionState, waitVars, endPoint,
                 direction, steps, mot_delay, verticalCounter, boundary, i, p,
                 histTap,
                 sprayLog, pulses, delays, clean>>

(***************************************************************************)
(* The stepper revision (src/WoodStain.ino 1014-1365 with src/limits.h,    *)
(* src/sprays.h and src/WoodStain.h) and the relay revision (src/src).     *)
(***************************************************************************)
Directions == {UP, DOWN, LEFT, RIGHT}
MotionVariants == {"stepper", "relay"}

\* Pin table of the stepper revision: src/WoodStain.h 193-215; the second
\* vertical driver is named only by src/src/WoodStain.h 73-75.
PinsStepper ==
  [TOP_SPRAY |-> 34, BOTTOM_SPRAY |-> 35, STATUS_LED |-> 13,
   HORIZONTAL_MOTOR_SELECT |-> 44, VERTICAL_MOTOR_SELECT |-> 48,
   MOTOR_STATE_PIN |-> 36,
   HORIZONTAL_STEPPER_DIRECTION |-> 27, HORIZONTAL_STEPPER_STEP |-> 26,
   HORIZONTAL_STEPPER_ENABLE |-> 28,
   VERTICAL_STEPPER_DIRECTION |-> 23, VERTICAL_STEPPER_STEP |-> 24,
   VERTICAL_STEPPER_ENABLE |-> 22,
   VERTICAL_STEPPER_DIRECTION_2 |-> 31, VERTICAL_STEPPER_STEP_2 |-> 30,
   VERTICAL_STEPPER_ENABLE_2 |-> 32]

\* Pin table of the relay revision: src/src/WoodStain.h through
\* src/src/pins.h.  MOT_PWR, the pin of MOTOR_STATE_PIN, is not defined
\* there: it is the pin src/WoodStain.h gives MOTOR_STATE_PIN.
PinsRelay ==
  [TOP_SPRAY |-> 34, BOTTOM_SPRAY |-> 35, STATUS_LED |-> 13,
   HORIZONTAL_MOTOR_SELECT |-> 48, VERTICAL_MOTOR_SELECT |-> 44,
   MOTOR_STATE_PIN |-> 36,
   HORIZONTAL_STEPPER_DIRECTION |-> 23, HORIZONTAL_STEPPER_STEP |-> 24,
   HORIZONTAL_STEPPER_ENABLE |-> 24,
   VERTICAL_STEPPER_DIRECTION |-> 27, VERTICAL_STEPPER_STEP |-> 26,
   VERTICAL_STEPPER_ENABLE |-> 28,
   VERTICAL_STEPPER_DIRECTION_2 |-> 31, VERTICAL_STEPPER_STEP_2 |-> 30,
   VERTICAL_STEPPER_ENABLE_2 |-> 32,
   MOTOR_UP |-> 7, MOTOR_DOWN |-> 36]

PinsMotion == IF variant = "relay" THEN PinsRelay ELSE PinsStepper

MotionOutputs ==
  {7, 13, 22, 23, 24, 26, 27, 28, 30, 31, 32, 34, 35, 36, 44, 48}

\* The profiles a move is checked with: the delays and the ramp length of
\* horizontalProfile and verticalProfile, scaled down.
ProfileSet ==
  {[min |-> m, max |-> m + d, stepsToStart |-> r] :
     m \in 0..MaxMinDelay, d \in 0..MaxSpan, r \in 0..MaxRamp}

\* mot_delay is a float; the model keeps it exactly, as a numerator over
\* stepsToStart (over 1 when stepsToStart is 0 and the ramp never runs).
scale(q) == IF q.stepsToStart = 0 THEN 1 ELSE q.stepsToStart

\* (int)mot_delay, and the conversion of mot_delay to the long of go().
truncated(n, q) == n \div scale(q)

\* if (mot_delay > p.min) { if (mot_delay - decrement >= p.min)
\*   mot_delay -= decrement; else mot_delay = p.min; }
\* with decrement = (float)(p.max - p.min) / (float)p.stepsToStart.
rampDown_up(n, q) ==
  LET decrement == q.max - q.min
      lowest    == q.min * scale(q)
  IN IF n >= lowest THEN n + decrement ELSE n
rampDown(n, q) ==
  LET decrement == q.max - q.min
      lowest    == q.min * scale(q)
  IN IF n > lowest
       THEN IF n - decrement >= lowest THEN n - decrement ELSE lowest
       ELSE n

horizontalOn(o, pins)  == digitalWrite(o, pins.HORIZONTAL_STEPPER_ENABLE, LOW)
horizontalOff(o, pins) == digitalWrite(o, pins.HORIZONTAL_STEPPER_ENABLE, HIGH)
verticalOn(o, pins) ==
  digitalWrite(digitalWrite(o, pins.VERTICAL_STEPPER_ENABLE, LOW),
               pins.VERTICAL_STEPPER_ENABLE_2, LOW)
verticalOff(o, pins) ==
  digitalWrite(digitalWrite(o, pins.VERTICAL_STEPPER_ENABLE, HIGH),
               pins.VERTICAL_STEPPER_ENABLE_2, HIGH)

\* goUp and goDown: the direction, then one pulse on the step output of
\* the vertical driver (src/WoodStain.h; the stepper revision passes the
\* delay as go(direction, delay) does for goLeft and goRight).
goVerticalStep(o, pins, dirLevel) ==
  pulse(o, pins.VERTICAL_STEPPER_DIRECTION, dirLevel,
        pins.VERTICAL_STEPPER_STEP)

\* go(direction, delay): one step on a stepper axis.
go_M(o, pins, d) ==
  CASE d = LEFT  -> pulse(o, pins.HORIZONTAL_STEPPER_DIRECTION,
                          LEFT_DIRECTION, pins.HORIZONTAL_STEPPER_STEP)
    [] d = RIGHT -> pulse(o, pins.HORIZONTAL_STEPPER_DIRECTION,
                          RIGHT_DIRECTION, pins.HORIZONTAL_STEPPER_STEP)
    [] d = UP    -> goVerticalStep(o, pins, UP_DIRECTION)
    [] d = DOWN  -> goVerticalStep(o, pins, DOWN_DIRECTION)
    [] OTHER     -> o

\* stopVertical() and goVertical(direction) of the relay revision.
stopVertical(o) ==
  digitalWrite(digitalWrite(o, PinsRelay.MOTOR_UP, LOW),
               PinsRelay.MOTOR_DOWN, LOW)

\* goVertical: the outputs after its first write, the relay of the other
\* direction LOW, and after its second, the relay of the direction HIGH.
goVerticalFirst(o, d) ==
  IF d = UP THEN digitalWrite(o, PinsRelay.MOTOR_DOWN, LOW)
            ELSE digitalWrite(o, PinsRelay.MOTOR_UP, LOW)

goVertical_makeOnly(o, d) ==
  IF d = UP THEN digitalWrite(o, PinsRelay.MOTOR_UP, HIGH)
            ELSE digitalWrite(o, PinsRelay.MOTOR_DOWN, HIGH)

goVertical(o, d) ==
  IF d = UP
    THEN digitalWrite(goVerticalFirst(o, d), PinsRelay.MOTOR_UP, HIGH)
    ELSE digitalWrite(goVerticalFirst(o, d), PinsRelay.MOTOR_DOWN, HIGH)

\* turnOffMotors() and turnOffAll() of src/WoodStain.h.
turnOffMotors_T(o) ==
  LET o1 == digitalWrite(o, PinsStepper.MOTOR_STATE_PIN, LOW)
      o2 == digitalWrite(o1, PinsStepper.HORIZONTAL_MOTOR_SELECT, LOW)
      o3 == digitalWrite(o2, PinsStepper.VERTICAL_MOTOR_SELECT, LOW)
      o4 == digitalWrite(o3, PinsStepper.HORIZONTAL_STEPPER_ENABLE, HIGH)
  IN digitalWrite(o4, PinsStepper.VERTICAL_STEPPER_ENABLE, HIGH)

turnOffAll_T(o) == turnOffSprays(turnOffMotors_T(o), PinsStepper)

\* turnOffMotors() and turnOffAll() of src/src/controls.h.
turnOffMotors_R(o) ==
  LET o1 == digitalWrite(o, PinsRelay.MOTOR_STATE_PIN, LOW)
      o2 == digitalWrite(o1, PinsRelay.HORIZONTAL_MOTOR_SELECT, LOW)
  IN digitalWrite(o2, PinsRelay.VERTICAL_MOTOR_SELECT, LOW)

turnOffAll_R_motorsOnly(o) == turnOffMotors_R(o)
turnOffAll_R(o) == turnOffSprays(turnOffMotors_R(o), PinsRelay)

\* *strokeCount++;  parses as *(strokeCount++): the local pointer moves on
\* and the counter it pointed to keeps its value.
pointerPostIncrement(n) == n

strokeWait_same(axis, l) == l

\* horizontalStrokeWait() and verticalStrokeWait(): the end point for the
\* switch waitPressAny returned.
strokeWait(axis, l) ==
  IF axis = VERTICAL
    THEN IF l = "BOTTOM_LIMIT" THEN "TOP_LIMIT" ELSE "BOTTOM_LIMIT"
    ELSE IF l = "LEFT_LIMIT" THEN "RIGHT_LIMIT" ELSE "LEFT_LIMIT"

\* The axis doStrokes(direction) strokes along, and the switches of
\* verticalLimits and horizontalLimits.
strokeAxis(d) == IF isVertical(d) THEN HORIZONTAL ELSE VERTICAL
limitsOf(axis) ==
  IF axis = VERTICAL THEN <<"TOP_LIMIT", "BOTTOM_LIMIT">>
                     ELSE <<"LEFT_LIMIT", "RIGHT_LIMIT">>

InitStepper ==
  /\ variant = "stepper"
  /\ pc = "M_idle"
  /\ out = [pin \in MotionOutputs |-> LOW]
  /\ profiles = ScaledProfiles
  /\ InitCommon

InitRelay ==
  /\ variant = "relay"
  /\ pc = "M_idle"
  /\ out = [pin \in MotionOutputs |-> LOW]
  /\ profiles = ScaledProfiles
  /\ InitCommon

\* What the moves of the stepper and relay revisions leave alone.
fixedM == <<build, sw, inductionState, A, B, first, histTap>>
moveVars == <<stepsSoFar, mot_delay, p, pulses, delays, clean>>

\* The statements of loop(), live or commented out, start from here in any
\* order:  goUntil (d, LIMIT);  and goUntil with a step budget, as
\* transition calls it.
M_call_goUntil ==
  /\ variant \in MotionVariants /\ pc = "M_idle"
  /\ \E d \in Directions : direction' = d
  /\ \E n \in {LIMIT} \cup (0..GapSteps) : steps' = n
  /\ pc' = "M_goUntil" /\ stack' = <<"M_done">>
  /\ UNCHANGED <<fixedM, moveVars, out, strokes, limit, endPoint,
                 verticalCounter, boundary, i, sprayLog, reason>>

\* doStrokes (d);
M_call_doStrokes ==
  /\ variant \in MotionVariants /\ pc = "M_idle"
  /\ \E d \in Directions : boundary' = d
  /\ pc' = "M_doStrokes" /\ stack' = <<"M_done">>
  /\ UNCHANGED <<fixedM, moveVars, out, strokes, limit, endPoint, direction,
                 steps, verticalCounter, i, sprayLog, reason>>

\* A statement of loop() has returned: the locals of the calls are gone.
M_done ==
  /\ variant \in MotionVariants /\ pc = "M_done"
  /\ pc' = "M_idle"
  /\ direction' = UP /\ steps' = LIMIT /\ boundary' = UP /\ i' = 0
  /\ limit' = "NONE" /\ endPoint' = "NONE"
  /\ UNCHANGED <<fixedM, moveVars, stack, out, strokes, verticalCounter,
                 sprayLog, reason>>

\* Stop ("Done painting!");
M_call_Stop ==
  /\ variant \in MotionVariants /\ pc = "M_idle"
  /\ CallStop("Done painting!")
  /\ UNCHANGED <<fixedM, moveVars, out, strokes, limit, endPoint, direction,
                 steps, verticalCounter, boundary, i, sprayLog>>

\* goVertical (d); of the relay revision, called on its own.
R_call_goVertical ==
  /\ variant = "relay" /\ pc = "M_idle"
  /\ \E d \in {UP, DOWN} : out' = goVertical(out, d)
  /\ UNCHANGED <<fixedM, moveVars, pc, stack, strokes, limit, endPoint,
                 direction, steps, verticalCounter, boundary, i, sprayLog,
                 reason>>

\* goUntil(direction, steps) up to its first loop: getLimit, the relay
\* revision's dispatch to goUntilVertical, the profile, the driver enable.
M_goUntil ==
  /\ variant \in MotionVariants /\ pc = "M_goUntil"
  /\ limit' = getLimit(direction)
  /\ stepsSoFar' = 0 /\ pulses' = 0 /\ delays' = <<>> /\ clean' = TRUE
  /\ IF variant = "relay" /\ isVertical(direction)
       THEN /\ pc' = "R_goUntilVertical"
            /\ UNCHANGED <<out, p, mot_delay>>
       ELSE /\ p' = IF isVertical(direction) THEN profiles.vertical
                                              ELSE profiles.horizontal
            /\ mot_delay' = p'.max * scale(p')
            /\ out' = IF isVertical(direction)
                        THEN verticalOn(out, PinsMotion)
                        ELSE horizontalOn(out, PinsMotion)
            /\ pc' = "M_ramp"
  /\ UNCHANGED <<fixedM, stack, strokes, endPoint, direction, steps,
                 verticalCounter, boundary, i, sprayLog, reason>>

\* One step of a move: go(direction, delay), stepsSoFar++.
takeStep(delay) ==
  /\ stepsSoFar < MaxSteps
  /\ out' = go_M(out, PinsMotion, direction)
  /\ delays' = Append(delays, delay)
  /\ pulses' = pulses + 1
  /\ stepsSoFar' = stepsSoFar + 1

\* while (!digitalRead (limit) && stepsSoFar < p.stepsToStart) {
\*   if (steps != LIMIT) { if (stepsSoFar > steps) break; }
\*   go (direction, (int)mot_delay);  ...ramp...;  stepsSoFar++; }
M_ramp ==
  /\ variant \in MotionVariants /\ pc = "M_ramp"
  /\ IF digitalRead(limit) = 1
       THEN /\ clean' = FALSE /\ pc' = "M_cruise"
            /\ UNCHANGED <<out, delays, pulses, stepsSoFar, mot_delay>>
       ELSE IF ~(stepsSoFar < p.stepsToStart)
                 \/ (steps # LIMIT /\ stepsSoFar > steps)
              THEN /\ pc' = "M_cruise"
                   /\ UNCHANGED <<out, delays, pulses, stepsSoFar,
                                  mot_delay, clean>>
              ELSE /\ takeStep(truncated(mot_delay, p))
                   /\ mot_delay' = rampDown(mot_delay, p)
                   /\ UNCHANGED <<pc, clean>>
  /\ UNCHANGED <<fixedM, stack, strokes, limit, endPoint, direction, steps,
                 verticalCounter, boundary, i, p, sprayLog, reason>>

M_cruise_counted ==
  /\ variant \in MotionVariants /\ pc = "M_cruise"
  /\ IF digitalRead(limit) = 1
       THEN /\ clean' = FALSE /\ pc' = "M_rest"
            /\ UNCHANGED <<out, delays, pulses, stepsSoFar>>
       ELSE IF stepsSoFar > steps
              THEN /\ pc' = "M_rest"
                   /\ UNCHANGED <<out, delays, pulses, stepsSoFar, clean>>
              ELSE /\ takeStep(truncated(mot_delay, p))
                   /\ UNCHANGED <<pc, clean>>
  /\ UNCHANGED <<fixedM, stack, strokes, limit, endPoint, direction, steps,
                 mot_delay, verticalCounter, boundary, i, p, sprayLog,
                 reason>>

\* while (!digitalRead (limit)) {
\*   if (steps != LIMIT) { if (stepsSoFar > steps) break; }
\*   go (direction, mot_delay);  stepsSoFar++; }
M_cruise ==
  /\ variant \in MotionVariants /\ pc = "M_cruise"
  /\ IF digitalRead(limit) = 1
       THEN /\ clean' = FALSE /\ pc' = "M_rest"
            /\ UNCHANGED <<out, delays, pulses, stepsSoFar>>
       ELSE IF steps # LIMIT /\ stepsSoFar > steps
              THEN /\ pc' = "M_rest"
                   /\ UNCHANGED <<out, delays, pulses, stepsSoFar, clean>>
              ELSE /\ takeStep(truncated(mot_delay, p))
                   /\ UNCHANGED <<pc, clean>>
  /\ UNCHANGED <<fixedM, stack, strokes, limit, endPoint, direction, steps,
                 mot_delay, verticalCounter, boundary, i, p, sprayLog,
                 reason>>

\* The end of goUntil: the driver of the axis off (horizontalOff; alone in
\* the relay revision, whose vertical moves do not come here), then
\* delay(MOTOR_REST).
restOff(o) ==
  IF variant = "stepper"
    THEN IF isVertical(direction) THEN verticalOff(o, PinsStepper)
                                  ELSE horizontalOff(o, PinsStepper)
    ELSE horizontalOff(o, PinsRelay)

\* horizontalOn; verticalOn; (horizontalOn; alone in the relay revision),
\* then delay(DEBOUNCE_TIME).
restOn(o) ==
  IF variant = "stepper"
    THEN verticalOn(horizontalOn(o, PinsStepper), PinsStepper)
    ELSE horizontalOn(o, PinsRelay)

M_rest ==
  /\ variant \in MotionVariants /\ pc = "M_rest"
  /\ out' = restOff(out)
  /\ pc' = "M_resting"
  /\ UNCHANGED <<fixedM, moveVars, stack, strokes, limit, endPoint,
                 direction, steps, verticalCounter, boundary, i, sprayLog,
                 reason>>

M_resume ==
  /\ variant \in MotionVariants /\ pc = "M_resting"
  /\ out' = restOn(out)
  /\ Return
  /\ stepsSoFar' = 0 /\ mot_delay' = 0 /\ p' = NoProfile
  /\ pulses' = 0 /\ delays' = <<>> /\ clean' = TRUE
  /\ UNCHANGED <<fixedM, strokes, limit, endPoint, direction, steps,
                 verticalCounter, boundary, i, sprayLog, reason>>

\* goUntilVertical(direction, steps):  int limit = getDirection (limit);
\* reads limit before it has a value.  Any value that is not one of the four
\* switch pins ends in the Stop of getDirection; one of the four gives a
\* direction number, 0..3, which is then read as a pin: no switch is wired
\* to those pins.  Then, for a bounded move, verticalCounter = 0;
R_goUntilVertical ==
  /\ variant = "relay" /\ pc = "R_goUntilVertical"
  /\ \E garbage \in Switches \cup {"none"} :
       IF getDirection(garbage) = -1
         THEN /\ CallStop("Error in getting direction for limit switch...")
              /\ UNCHANGED <<limit, verticalCounter>>
         ELSE /\ limit' = "unwired"
              /\ verticalCounter' = IF steps = LIMIT THEN verticalCounter
                                                     ELSE 0
              /\ pc' = "R_goVertical"
              /\ UNCHANGED <<stack, reason>>
  /\ UNCHANGED <<fixedM, moveVars, out, strokes, endPoint, direction, steps,
                 boundary, i, sprayLog>>

\* goVertical (direction); in goUntilVertical: the relay of the direction
\* is asserted after the reset of the counter.
R_goVertical ==
  /\ variant = "relay" /\ pc = "R_goVertical"
  /\ out' = goVertical(out, direction)
  /\ pc' = "R_verticalPoll"
  /\ UNCHANGED <<fixedM, moveVars, stack, strokes, limit, endPoint,
                 direction, steps, verticalCounter, boundary, i, sprayLog,
                 reason>>

verticalPollContinues_lagging(counter, level) ==
  (steps = LIMIT \/ counter <= steps) /\ level = LOW

\* One test of  while (!digitalRead (limit));  or of
\* while (verticalCounter < steps && !digitalRead (limit));  the counter is
\* read and compared, the pin read is not a switch.
verticalPollContinues(counter, level) ==
  (steps = LIMIT \/ counter < steps) /\ level = LOW

\* The poll of goUntilVertical, then stopVertical(); delay (MOTOR_REST);
R_verticalPoll ==
  /\ variant = "relay" /\ pc = "R_verticalPoll"
  /\ \E level \in {LOW, HIGH} :
       IF verticalPollContinues(verticalCounter, level)
         THEN UNCHANGED <<out, pc, stack>>
         ELSE out' = stopVertical(out) /\ Return
  /\ UNCHANGED <<fixedM, moveVars, strokes, limit, endPoint, direction,
                 steps, verticalCounter, boundary, i, sprayLog, reason>>

\* The producer of verticalCounter: a pulse of the external source at any
\* point of a bounded vertical move, before the reset, between the reset and
\* the relay, or during the poll.  The counter is capped one above the
\* largest budget.
EncoderPcs == {"R_goUntilVertical", "R_goVertical", "R_verticalPoll"}

Encoder ==
  /\ variant = "relay" /\ pc \in EncoderPcs /\ steps # LIMIT
  /\ verticalCounter <= GapSteps
  /\ verticalCounter' = verticalCounter + 1
  /\ UNCHANGED <<fixedM, moveVars, pc, stack, out, strokes, limit, endPoint,
                 direction, steps, boundary, i, sprayLog, reason>>

\* doStrokes(direction): while (!digitalRead (limit)) { stroke (axis);
\* transition (direction); } and the start of stroke(axis), which is the
\* start of waitPressAny: i = 0.
M_doStrokes_blind ==
  /\ variant \in MotionVariants /\ pc = "M_doStrokes"
  /\ Len(sprayLog) < MaxStrokesM
  /\ i' = 0
  /\ pc' = "M_waitPressAny"
  /\ UNCHANGED <<fixedM, moveVars, stack, out, strokes, limit, endPoint,
                 direction, steps, verticalCounter, boundary, sprayLog,
                 reason>>
M_doStrokes ==
  /\ variant \in MotionVariants /\ pc = "M_doStrokes"
  /\ IF digitalRead(getLimit(boundary)) = 1
       THEN Return /\ UNCHANGED i
       ELSE /\ Len(sprayLog) < MaxStrokesM
            /\ i' = 0
            /\ pc' = "M_waitPressAny"
            /\ UNCHANGED stack
  /\ UNCHANGED <<fixedM, moveVars, out, strokes, limit, endPoint, direction,
                 steps, verticalCounter, boundary, sprayLog, reason>>

M_waitPressAny_firstOfList ==
  /\ variant \in MotionVariants /\ pc = "M_waitPressAny"
  /\ LET s == limitsOf(strokeAxis(boundary))[i + 1]
     IN IF digitalRead(s) = LOW
          THEN i' = (i + 1) % 2 /\ UNCHANGED <<pc, limit>>
          ELSE /\ limit' = limitsOf(strokeAxis(boundary))[1]
               /\ pc' = "M_stroke" /\ UNCHANGED i
  /\ UNCHANGED <<fixedM, moveVars, stack, out, strokes, endPoint, direction,
                 steps, verticalCounter, boundary, sprayLog, reason>>

\* waitPressAny(pins, len): while (digitalRead (pins[i % len]) == LOW) i++;
\* return pins[i % len];  i is kept modulo len, which is 2.
M_waitPressAny ==
  /\ variant \in MotionVariants /\ pc = "M_waitPressAny"
  /\ LET s == limitsOf(strokeAxis(boundary))[i + 1]
     IN IF digitalRead(s) = LOW
          THEN i' = (i + 1) % 2 /\ UNCHANGED <<pc, limit>>
          ELSE limit' = s /\ pc' = "M_stroke" /\ UNCHANGED i
  /\ UNCHANGED <<fixedM, moveVars, stack, out, strokes, endPoint, direction,
                 steps, verticalCounter, boundary, sprayLog, reason>>

\* The counter stroke(axis) points strokeCount at.
strokeCountOf(axis) ==
  IF axis = VERTICAL THEN strokes.vertical ELSE strokes.horizontal

\* stroke(axis): the end point, the valves from *strokeCount, then
\* goUntil (getDirection (endPoint), LIMIT).
M_stroke ==
  /\ variant \in MotionVariants /\ pc = "M_stroke"
  /\ endPoint' = strokeWait(strokeAxis(boundary), limit)
  /\ out' = selectSpray(out, PinsMotion, strokeCountOf(strokeAxis(boundary)),
                        MIN_I, MAX_I)
  /\ sprayLog' = Append(sprayLog, SprayConfiguration(out', PinsMotion))
  /\ direction' = getDirection(endPoint')
  /\ steps' = LIMIT
  /\ pc' = "M_goUntil"
  /\ stack' = <<"M_stroke_waitPress">> \o stack
  /\ UNCHANGED <<fixedM, moveVars, strokes, limit, verticalCounter, boundary,
                 i, reason>>

\* stroke(axis): waitPress (endPoint).
M_stroke_waitPress ==
  /\ variant \in MotionVariants /\ pc = "M_stroke_waitPress"
  /\ limit' = endPoint
  /\ pc' = "waitPress"
  /\ stack' = <<"M_strokeDone">> \o stack
  /\ UNCHANGED <<fixedM, moveVars, out, strokes, endPoint, direction, steps,
                 verticalCounter, boundary, i, sprayLog, reason>>

\* The end of stroke(axis): turnOffSprays (); *strokeCount++; and
\* transition(direction): turnOffSprays (); goUntil (direction, gap).
M_strokeDone ==
  /\ variant \in MotionVariants /\ pc = "M_strokeDone"
  /\ out' = turnOffSprays(turnOffSprays(out, PinsMotion), PinsMotion)
  /\ strokes' = IF strokeAxis(boundary) = VERTICAL
                  THEN [strokes EXCEPT !.vertical = pointerPostIncrement(@)]
                  ELSE [strokes EXCEPT !.horizontal = pointerPostIncrement(@)]
  /\ direction' = boundary
  /\ steps' = GapSteps
  /\ pc' = "M_goUntil"
  /\ stack' = <<"M_doStrokes">> \o stack
  /\ UNCHANGED <<fixedM, moveVars, limit, endPoint, verticalCounter,
                 boundary, i, sprayLog, reason>>

(***************************************************************************)
(* The fatal stop.                                                         *)
(***************************************************************************)
\* turnOffAll() as Stop calls it, per revision.
turnOffAll(o) ==
  CASE variant = "induction" -> turnOffAll_I(o)
    [] variant = "stepper"   -> turnOffAll_T(o)
    [] variant = "relay"     -> turnOffAll_R(o)
    [] OTHER                 -> o

\* STATUS_LED is pin 13 in every revision.
STATUS_LED == PinsInduction.STATUS_LED

\* Stop(reason): debug(reason); turnOffAll(); then the blink loop.
Stop ==
  /\ pc = "Stop"
  /\ out' = turnOffAll(out)
  /\ inductionState' = NONE
  /\ pc' = "blink_high"
  /\ UNCHANGED <<build, stack, sw, strokes, waitVars, endPoint, motionVars,
                 histTap, sprayLog, histMove>>

\* while (1) { digitalWrite(STATUS_LED, HIGH); delay(300);
StopBlinkHigh ==
  /\ pc = "blink_high"
  /\ out' = digitalWrite(out, STATUS_LED, HIGH)
  /\ pc' = "blink_low"
  /\ UNCHANGED <<build, stack, sw, strokes, inductionState, waitVars,
                 endPoint, motionVars, histTap, sprayLog, histMove>>

\*             digitalWrite(STATUS_LED, LOW); delay(300); }
StopBlinkLow ==
  /\ pc = "blink_low"
  /\ out' = digitalWrite(out, STATUS_LED, LOW)
  /\ pc' = "blink_high"
  /\ UNCHANGED <<build, stack, sw, strokes, inductionState, waitVars,
                 endPoint, motionVars, histTap, sprayLog, histMove>>

NextInduction ==
  \/ I_loop
  \/ I_goUntil
  \/ I_horizontalMotor
  \/ I_vertical
  \/ I_doStrokes
  \/ waitPressAnyOfTwo
  \/ waitPressAnyOfTwo_poll
  \/ waitPressAnyOfTwo_release
  \/ waitRelease
  \/ waitRelease_loop
  \/ waitPress
  \/ waitPress_loop
  \/ I_horizontalStrokeWait
  \/ I_horizontalStroke
  \/ I_verticalStroke
  \/ I_strokeDone
  \/ I_transition
  \/ Stop
  \/ StopBlinkHigh
  \/ StopBlinkLow
  \/ Env

SpecInduction == InitInduction /\ [][NextInduction]_vars

NextStepper ==
  \/ M_call_goUntil
  \/ M_done
  \/ M_call_doStrokes
  \/ M_call_Stop
  \/ M_goUntil
  \/ M_ramp
  \/ M_cruise
  \/ M_rest
  \/ M_resume
  \/ M_doStrokes
  \/ M_waitPressAny
  \/ M_stroke
  \/ M_stroke_waitPress
  \/ M_strokeDone
  \/ waitPress
  \/ waitPress_loop
  \/ Stop
  \/ StopBlinkHigh
  \/ StopBlinkLow
  \/ Env

SpecStepper == InitStepper /\ [][NextStepper]_vars

NextRelay ==
  \/ NextStepper
  \/ R_call_goVertical
  \/ R_goUntilVertical
  \/ R_goVertical
  \/ R_verticalPoll
  \/ Encoder

SpecRelay == InitRelay /\ [][NextRelay]_vars

\* The stepper and the relay revision together.
SpecMotion == (InitStepper \/ InitRelay) /\ [][NextRelay]_vars

\* The moves of the two revisions, for every profile of ProfileSet on both
\* axes.
InitProfiles ==
  /\ variant \in MotionVariants
  /\ \E q \in ProfileSet : profiles = [horizontal |-> q, vertical |-> q]
  /\ pc = "M_idle"
  /\ out = [pin \in MotionOutputs |-> LOW]
  /\ InitCommon

NextProfiles ==
  \/ M_call_goUntil
  \/ M_done
  \/ M_goUntil
  \/ M_ramp
  \/ M_cruise
  \/ M_rest
  \/ M_resume
  \/ R_goUntilVertical
  \/ R_goVertical
  \/ R_verticalPoll
  \/ Encoder
  \/ Stop
  \/ StopBlinkHigh
  \/ StopBlinkLow
  \/ Env

SpecProfiles == InitProfiles /\ [][NextProfiles]_vars

(***************************************************************************)
(* Properties of the spray controller and the stroke counter.              *)
(***************************************************************************)
\* The two revisions whose stroke selects the valves from a static counter.
SpecStrokes ==
  (InitSingle \/ InitInduction) /\ [][NextSingle \/ NextInduction]_vars

StopPcs == {"Stop", "blink_high", "blink_low"}
LeftRight == {"LEFT_LIMIT", "RIGHT_LIMIT"}

\* The configuration the rule of the spray controller gives stroke count n.
ConfigurationFor(n, min, max) ==
  IF n < min THEN "TopOnly" ELSE IF n <= max THEN "Both" ELSE "BottomOnly"

\* A horizontal stroke has applied its valves and is under way.
SprayingSingle == variant = "single" /\ pc = "stroke_go"
SprayingInduction ==
  /\ variant = "induction" /\ isVertical(direction)
  /\ pc \in {"waitPress", "waitPress_loop"} /\ stack = <<"I_strokeDone">>

DoubleTaps == {<<s, s>> : s \in LeftRight}
LeftRightRight == <<"LEFT_LIMIT", "RIGHT_LIMIT", "RIGHT_LIMIT">>

\* The positions at which the stroke wait has returned to the stroke.
Returned == pc \in {"stroke_select", "I_horizontalStroke"}

\* The fatal stop was entered by the entry check of waitPressAnyOfTwo: a
\* press began before the wait for it did.
EntryCheckStop ==
  /\ pc \in StopPcs
  /\ reason = "Waiting for buttons to be pressed when a button is already pressed"

\* C4: when the presses observed are A, A, each begun while the wait polled
\* for it, the stroke wait does not end in the fatal stop, and when it
\* returns it returns the switch opposite to A.
C4_DoubleTap ==
  taps \in DoubleTaps =>
    /\ pc \in StopPcs => EntryCheckStop
    /\ Returned => endPoint = other(taps[1])

\* C5: in the assert-checked induction-motor revision, when the presses
\* observed are Left, Right, Right, each begun while the wait polled for
\* it, the stroke wait does not end in the fatal stop, and once the release
\* of the last press has been observed the wait has returned Left: no
\* further press is waited for.
C5_SecondPress ==
  (variant = "induction" /\ first = "LEFT_LIMIT") =>
    /\ (Len(taps) >= 2 /\ taps = SubSeq(LeftRightRight, 1, Len(taps)))
         => (pc \in StopPcs => EntryCheckStop)
    /\ (taps = LeftRightRight /\ seen["RIGHT_LIMIT"] = 0)
         => (pc = "I_horizontalStroke" /\ endPoint = first)

\* C6: a turn of the polling loop of waitPressAnyOfTwo that finds both
\* switches pressed, after the entry check found neither pressed, enters
\* the fatal stop.
C6_BothPressed ==
  [][(/\ pc = "waitPressAnyOfTwo_poll"
      /\ sw[strokeA(direction)] = 1 /\ sw[strokeB(direction)] = 1
      /\ pc' # pc)
     => pc' = "Stop"]_vars

(***************************************************************************)
(* Properties of the per-axis stroke, the fatal stop and the moves.        *)
(***************************************************************************)
\* C2: the end of a stroke(axis) leaves the counter of that axis exactly one
\* greater than it was.
C2_StrokeCounter ==
  [][(pc = "M_strokeDone" /\ pc' # pc) =>
       IF strokeAxis(boundary) = VERTICAL
         THEN strokes'.vertical = strokes.vertical + 1
         ELSE strokes'.horizontal = strokes.horizontal + 1]_vars

Blinking == {"blink_high", "blink_low"}

\* C7: once Stop has been entered control stays in it; in the blink loop
\* both valves and the induction motor power output are off, no output but
\* the status LED changes, and the LED is written HIGH and LOW in turn.
C7_HaltAbsorbing ==
  [][/\ pc \in StopPcs => pc' \in StopPcs
     /\ pc' \in Blinking =>
          /\ out'[PinsMotion.TOP_SPRAY] = LOW
          /\ out'[PinsMotion.BOTTOM_SPRAY] = LOW
          /\ out'[PinsMotion.MOTOR_STATE_PIN] = LOW
     /\ pc \in Blinking =>
          /\ \A pin \in DOMAIN out \ {STATUS_LED} : out'[pin] = out[pin]
          /\ pc' # pc =>
               out'[STATUS_LED] = IF pc = "blink_high" THEN HIGH ELSE LOW]_vars

\* The relay revision stopped while a vertical stroke sprayed, and the LED
\* has been written HIGH.
C7_Witness ==
  /\ variant = "relay" /\ pc = "blink_low" /\ out[STATUS_LED] = HIGH
  /\ Len(sprayLog) > 0
  /\ reason = "Error in getting direction for limit switch..."

\* C8: in the relay revision every actuator output is off once the blink
\* loop of Stop runs: the valves, the induction motor power and select
\* outputs, and the relay outputs MOTOR_UP and MOTOR_DOWN.
C8_RelaysOff ==
  (variant = "relay" /\ pc \in Blinking) =>
    \A pin \in {PinsRelay.TOP_SPRAY, PinsRelay.BOTTOM_SPRAY,
                PinsRelay.MOTOR_STATE_PIN,
                PinsRelay.HORIZONTAL_MOTOR_SELECT,
                PinsRelay.VERTICAL_MOTOR_SELECT,
                PinsRelay.MOTOR_UP, PinsRelay.MOTOR_DOWN} : out[pin] = LOW

\* C9: when a move with step budget N >= 0 ends without having read its
\* limit switch pressed, it has issued exactly N step pulses.
C9_BudgetPulses ==
  (pc = "M_rest" /\ steps # LIMIT /\ clean) => pulses = steps

\* C10: the delays one move has passed to the step primitive are
\* non-increasing, the first is the profile's max, and each lies between
\* the profile's min and max.
C10_DelaysRampDown ==
  \A k \in 1..Len(delays) :
    /\ p.min <= delays[k] /\ delays[k] <= p.max
    /\ k = 1 => delays[k] = p.max
    /\ k > 1 => delays[k] <= delays[k - 1]

\* A move has ramped from max down to a lower min in three steps.
C10_Witness ==
  /\ pc = "M_rest" /\ Len(delays) = 3
  /\ delays[1] = p.max /\ delays[1] > delays[2] /\ delays[2] > delays[3]
  /\ delays[3] = p.min

(***************************************************************************)
(* Properties of the cruise phase and of the limit reads of a move.        *)
(***************************************************************************)
\* C11: every step a move issues from its second loop, when no read of the
\* limit switch has returned pressed so far in the move, is given the delay
\* p.min, whatever the ramp length and also when it is 0.
C11_CruiseAtMin ==
  [][(pc = "M_cruise" /\ clean /\ pulses' = pulses + 1)
       => delays'[Len(delays')] = p.min]_vars

\* C12: once a read of the limit switch has returned pressed in a move, the
\* move issues no further step pulse.
C12_NoStepAfterPressed ==
  [][(pc \in {"M_ramp", "M_cruise"} /\ ~clean) => pulses' = pulses]_vars

(***************************************************************************)
(* getLimit and getDirection on their own (src/limits.h), applied to every *)
(* value of a small range of ints and pins, alone and one after the other. *)
(***************************************************************************)
\* How far the direction arguments go beyond UP..RIGHT on either side.
MaxOther == 1

DirectionInputs == (UP - MaxOther)..(RIGHT + MaxOther)

\* Pins that are not limit switches.
OtherPins == {"STATUS_LED", "TOP_SPRAY"}
LimitInputs == Switches \cup OtherPins

InitLimits ==
  /\ variant = "stepper"
  /\ pc = "L_idle"
  /\ out = [pin \in MotionOutputs |-> LOW]
  /\ profiles = ScaledProfiles
  /\ InitCommon

\* getDirection (getLimit (d)):  the argument is kept in boundary.
L_call_getLimit ==
  /\ pc = "L_idle"
  /\ \E d \in DirectionInputs : direction' = d /\ boundary' = d
  /\ pc' = "getLimit" /\ stack' = <<"getDirection", "L_done">>
  /\ UNCHANGED <<fixedM, moveVars, out, strokes, limit, endPoint, steps,
                 verticalCounter, i, sprayLog, reason>>

\* getLimit (getDirection (l)):  the argument is kept in endPoint.
L_call_getDirection ==
  /\ pc = "L_idle"
  /\ \E l \in LimitInputs : limit' = l /\ endPoint' = l
  /\ pc' = "getDirection" /\ stack' = <<"getLimit", "L_done">>
  /\ UNCHANGED <<fixedM, moveVars, out, strokes, direction, steps,
                 verticalCounter, boundary, i, sprayLog, reason>>

\* getLimit(direction): the switch, or the Stop of the default case.
L_getLimit ==
  /\ pc = "getLimit"
  /\ IF getLimit(direction) = "Stop"
       THEN /\ CallStop("Error in get limit because the direction is unknown..")
            /\ UNCHANGED limit
       ELSE /\ limit' = getLimit(direction)
            /\ Return
            /\ UNCHANGED reason
  /\ UNCHANGED <<fixedM, moveVars, out, strokes, endPoint, direction, steps,
                 verticalCounter, boundary, i, sprayLog>>

\* getDirection(limit): the direction, or the Stop of the default case.
L_getDirection ==
  /\ pc = "getDirection"
  /\ IF getDirection(limit) = -1
       THEN /\ CallStop("Error in getting direction for limit switch...")
            /\ UNCHANGED direction
       ELSE /\ direction' = getDirection(limit)
            /\ Return
            /\ UNCHANGED reason
  /\ UNCHANGED <<fixedM, moveVars, out, strokes, limit, endPoint, steps,
                 verticalCounter, boundary, i, sprayLog>>

\* Both calls have returned: the next pair of calls starts afresh.
L_done ==
  /\ pc = "L_done"
  /\ pc' = "L_idle"
  /\ direction' = UP /\ boundary' = UP
  /\ limit' = "NONE" /\ endPoint' = "NONE"
  /\ UNCHANGED <<fixedM, moveVars, stack, out, strokes, steps,
                 verticalCounter, i, sprayLog, reason>>

NextLimits ==
  \/ L_call_getLimit
  \/ L_call_getDirection
  \/ L_getLimit
  \/ L_getDirection
  \/ L_done
  \/ Stop
  \/ StopBlinkHigh
  \/ StopBlinkLow
  \/ Env

SpecLimits == InitLimits /\ [][NextLimits]_vars

\* The switch at the end of travel in each direction.
SwitchOf(d) ==
  CASE d = UP    -> "TOP_LIMIT"
    [] d = DOWN  -> "BOTTOM_LIMIT"
    [] d = LEFT  -> "LEFT_LIMIT"
    [] d = RIGHT -> "RIGHT_LIMIT"

\* C13: getLimit maps UP, DOWN, LEFT, RIGHT to the top, bottom, left and
\* right switch; getDirection of that result is the direction again, and
\* getLimit of the getDirection of a switch is the switch again.
C13_MutualInverses ==
  /\ (pc = "getDirection" /\ Len(stack) = 1) =>
       boundary \in Directions /\ limit = SwitchOf(boundary)
  /\ (pc = "getLimit" /\ Len(stack) = 1) =>
       endPoint \in Switches /\ SwitchOf(direction) = endPoint
  /\ (pc = "L_done" /\ endPoint = "NONE") => direction = boundary
  /\ (pc = "L_done" /\ endPoint # "NONE") => limit = endPoint

\* getDirection (getLimit (DOWN)) has returned.
C13_Witness ==
  pc = "L_done" /\ endPoint = "NONE" /\ boundary = DOWN /\ direction = DOWN
    /\ limit = "BOTTOM_LIMIT"

\* C14: getLimit of a value that is not a direction and getDirection of a
\* pin that is not a limit switch enter Stop, control stays in Stop from
\* then on, and neither call returns.
C14_UnknownIsFatal ==
  [][/\ (pc = "getLimit" /\ direction \notin Directions /\ pc' # pc)
          => pc' = "Stop"
     /\ (pc = "getDirection" /\ limit \notin Switches /\ pc' # pc)
          => pc' = "Stop"
     /\ (pc \in StopPcs /\ variant = "stepper") => pc' \in StopPcs]_vars

\* getDirection was given the status LED pin and the machine blinks.
C14_Witness ==
  /\ pc \in Blinking /\ endPoint = "STATUS_LED"
  /\ reason = "Error in getting direction for limit switch..."

(***************************************************************************)
(* Properties of the pass: doStrokes and transition.                       *)
(***************************************************************************)
\* The three revisions that paint with doStrokes.
SpecPasses ==
  (InitInduction \/ InitStepper \/ InitRelay)
    /\ [][NextInduction \/ NextRelay]_vars

\* The pin table of the revision that runs.
Pins ==
  CASE variant = "single"    -> PinsSingle
    [] variant = "induction" -> PinsInduction
    [] OTHER                 -> PinsMotion

\* The positions of the move that transition makes.
MovePcs == {"M_goUntil", "M_ramp", "M_cruise", "M_rest", "M_resting",
            "R_goUntilVertical", "R_goVertical", "R_verticalPoll"}

\* Control is inside transition(direction), after its turnOffSprays().
InTransition ==
  \/ variant = "induction" /\ pc = "I_transition"
  \/ /\ variant \in MotionVariants /\ pc \in MovePcs
     /\ stack # <<>> /\ Head(stack) = "M_doStrokes"

\* C15: from the turnOffSprays() of transition until transition returns,
\* and so at every step pulse it issues, both valve outputs are off.
C15_TransitionSpraysOff ==
  InTransition => out[Pins.TOP_SPRAY] = LOW /\ out[Pins.BOTTOM_SPRAY] = LOW

\* A transition of the stepper revision has issued a step pulse after a
\* stroke that sprayed.
C15_Witness ==
  /\ variant = "stepper" /\ InTransition /\ pulses > 0
  /\ Len(sprayLog) > 0 /\ sprayLog[Len(sprayLog)] # "Off"

\* The head of the loop of doStrokes, and the direction of the pass.
PassHead == {"I_doStrokes", "M_doStrokes"}
PassDirection == IF variant = "induction" THEN direction ELSE boundary

\* A step that starts a stroke, ends one, starts a transition.
StrokeStarts ==
  \/ pc' = "M_waitPressAny" /\ pc # "M_waitPressAny"
  \/ /\ pc' = "waitPressAnyOfTwo" /\ pc # "waitPressAnyOfTwo"
     /\ first' \in {"PENDING", "NONE"}
StrokeEnds == pc' \in {"I_strokeDone", "M_strokeDone"} /\ pc' # pc
TransitionStarts ==
  \/ pc' = "I_transition" /\ pc # "I_transition"
  \/ /\ variant \in MotionVariants /\ Len(stack') > Len(stack)
     /\ Head(stack') = "M_doStrokes"

\* C16: at the head of its loop doStrokes reads the switch of its direction:
\* open, it starts a stroke on the perpendicular axis; pressed, it returns.
\* A stroke starts nowhere else, a transition in the direction of the pass
\* starts only where a stroke ends, and the loop head is reached only by
\* the call and by the end of a transition.
C16_StrokeThenTransition ==
  [][/\ (pc \in PassHead /\ pc' # pc) =>
          IF sw[SwitchOf(PassDirection)] = 0
            THEN /\ StrokeStarts
                 /\ variant \in MotionVariants =>
                      limitsOf(strokeAxis(boundary))
                        = IF boundary \in {UP, DOWN}
                            THEN <<"LEFT_LIMIT", "RIGHT_LIMIT">>
                            ELSE <<"TOP_LIMIT", "BOTTOM_LIMIT">>
                 /\ variant = "induction" =>
                      Head(stack') = IF direction \in {UP, DOWN}
                                       THEN "I_horizontalStrokeWait"
                                       ELSE "I_verticalStroke"
            ELSE pc' \in {"I_reset2", "Stop", "M_done"}
     /\ StrokeStarts => pc \in PassHead
     /\ StrokeEnds => pc \in {"waitPress", "waitPress_loop"}
     /\ TransitionStarts =>
          /\ pc \in {"I_strokeDone", "M_strokeDone"}
          /\ variant \in MotionVariants => direction' = boundary
     /\ (pc' \in PassHead /\ pc' # pc) =>
          \/ pc \in {"I_horizontalMotor", "I_vertical", "M_idle"}
          \/ pc = "I_transition"
          \/ pc \in MovePcs /\ Head(stack) = "M_doStrokes"]_vars

\* The second stroke of a pass of the stepper revision has started, after
\* the transition that followed the first.
C16_Witness ==
  /\ variant = "stepper" /\ pc = "M_waitPressAny" /\ Len(sprayLog) = 1
  /\ stack = <<"M_done">>

\* C17: in the induction-motor revision a turn of the loop of transition
\* that finds the switch of its direction pressed enters Stop without a
\* step, a step is taken only by a turn that finds it open, control stays
\* in Stop, and transition returns only after STROKE_GAP such steps.
C17_StrictTransition ==
  [][/\ (pc = "I_transition" /\ sw' = sw /\ stepsSoFar < GapSteps
           /\ sw[SwitchOf(direction)] = 1)
          => (pc' = "Stop" /\ out' = out)
     /\ (pc = "I_transition" /\ stepsSoFar' = stepsSoFar + 1)
          => sw[SwitchOf(direction)] = 0
     /\ (pc = "I_transition" /\ pc' = "I_doStrokes")
          => stepsSoFar = GapSteps
     /\ (variant = "induction" /\ pc \in StopPcs) =>
          /\ pc' \in StopPcs
          /\ out'[PinsInduction.HORIZONTAL_STEPPER_STEP]
               = out[PinsInduction.HORIZONTAL_STEPPER_STEP]]_vars

\* The machine blinks after a transition found its limit pressed.
C17_Witness ==
  /\ variant = "induction" /\ pc \in Blinking
  /\ reason = "Limit reached before finishing transition!"

\* The revisions whose transition is curtailed by its limit, with a control
\* thread that keeps running: the program takes a step whenever it can.
NextLenient == NextSingle \/ NextStepper
SpecLenient == (InitSingle \/ InitStepper) /\ [][NextLenient]_vars
SpecLenientFair == SpecLenient /\ WF_vars(NextLenient /\ sw' = sw)

\* Control is inside a curtailed transition; the switch that bounds the
\* pass; the head of the loop of the pass; the pass is over.
LenientTransition ==
  \/ variant = "single" /\ pc = "transition"
  \/ variant = "stepper" /\ InTransition
BoundarySwitch ==
  IF variant = "single" THEN "TOP_LIMIT" ELSE SwitchOf(boundary)
LenientHead ==
  \/ variant = "single" /\ pc = "paint"
  \/ variant = "stepper" /\ pc = "M_doStrokes"
PassOver == pc \in {"hang_high", "hang_low", "M_done", "M_idle"}

\* C18: in the single-stepper and the stepper revision a transition never
\* enters Stop; a step the program takes inside a transition or at the head
\* of the pass while the boundary switch is pressed issues no pulse and
\* starts no stroke; and once the switch is pressed inside a transition,
\* the pass ends unless the switch opens again first.
C18_LenientTransition ==
  /\ [][/\ LenientTransition => pc' # "Stop"
        /\ ((LenientTransition \/ LenientHead) /\ sw' = sw
              /\ sw[BoundarySwitch] = 1)
             => /\ stepsSoFar' # stepsSoFar + 1
                /\ pulses' <= pulses
                /\ pc' \notin {"waitPressAny", "M_waitPressAny"}]_vars
  /\ (LenientTransition /\ sw[BoundarySwitch] = 1)
       ~> (sw[BoundarySwitch] = 0 \/ PassOver)

\* The boundary switch reads pressed after the first step of a transition
\* of the stepper revision.
C18_Witness ==
  /\ variant = "stepper" /\ InTransition /\ pc = "M_rest" /\ ~clean
  /\ pulses = 1 /\ steps = GapSteps /\ sw[SwitchOf(boundary)] = 1

(***************************************************************************)
(* Properties of the induction motors.                                     *)
(***************************************************************************)
\* The positions of the induction-motor revision inside a stroke.
StrokePcsI ==
  {"waitPressAnyOfTwo", "waitPressAnyOfTwo_poll", "waitPressAnyOfTwo_release",
   "waitRelease", "waitRelease_loop", "waitPress", "waitPress_loop",
   "I_horizontalStrokeWait", "I_horizontalStroke", "I_verticalStroke"}

\* C19: in the induction-motor revision inductionState is HORIZONTAL during
\* every stroke of doStrokes(UP) and VERTICAL during every stroke of
\* doStrokes(RIGHT): loop() engages the motor of the pass before the pass.
C19_MotorOfThePass ==
  (variant = "induction" /\ pc \in StrokePcsI) =>
    /\ direction \in {UP, RIGHT}
    /\ direction = UP => inductionState = HORIZONTAL
    /\ direction = RIGHT => inductionState = VERTICAL

\* The motor the outputs energize: the one whose select output is HIGH
\* while the power output is HIGH.
Energized ==
  LET power == out[PinsInduction.MOTOR_STATE_PIN]
      selH  == out[PinsInduction.HORIZONTAL_MOTOR_SELECT]
      selV  == out[PinsInduction.VERTICAL_MOTOR_SELECT]
  IN IF power = LOW THEN {NONE}
     ELSE {m \in {HORIZONTAL, VERTICAL} :
             \/ m = HORIZONTAL /\ selH = HIGH
             \/ m = VERTICAL /\ selV = HIGH}

\* C20: in the induction-motor revision, once loop() has turned everything
\* off, the power output is never HIGH while both select outputs are HIGH,
\* and inductionState names the motor whose select output is HIGH with the
\* power HIGH, NONE when the power is LOW.
C20_OneMotorEnergized ==
  (variant = "induction" /\ pc # "I_loop") =>
    /\ Cardinality(Energized) <= 1
    /\ Energized = {inductionState}

(***************************************************************************)
(* Properties of the edge waits.                                           *)
(***************************************************************************)
\* C21: in the induction-motor revision waitRelease(limit) entered while
\* the switch reads open, and waitPress(limit) entered while it reads
\* pressed, enter Stop instead of waiting, and control stays in Stop.
C21_WaitPreconditions ==
  [][(variant = "induction") =>
       /\ (pc = "waitRelease" /\ sw' = sw /\ sw[limit] = 0) => pc' = "Stop"
       /\ (pc = "waitPress" /\ sw' = sw /\ sw[limit] = 1) => pc' = "Stop"
       /\ (pc = "waitRelease" /\ pc' = "waitRelease_loop") => sw[limit] = 1
       /\ (pc = "waitPress" /\ pc' = "waitPress_loop") => sw[limit] = 0
       /\ pc \in StopPcs => pc' \in StopPcs]_vars

\* The machine blinks because waitPress found its switch pressed.
C21_Witness ==
  /\ variant = "induction" /\ pc \in Blinking
  /\ reason = "Waiting for a pressed button to be pressed...Stopping"

\* waitSecondRelease (l) of src/limits.h on its own, for each switch: the
\* reads of the call are recorded in taps and seen.
InitWaits ==
  /\ variant = "stepper"
  /\ pc = "W_idle"
  /\ out = [pin \in MotionOutputs |-> LOW]
  /\ profiles = ScaledProfiles
  /\ InitCommon

W_call_waitSecondRelease ==
  /\ pc = "W_idle"
  /\ \E l \in Switches : limit' = l /\ first' = l
  /\ taps' = <<>> /\ seen' = NoSeen
  /\ pc' = "waitRelease" /\ stack' = waitSecondReleaseStack("W_done")
  /\ UNCHANGED <<build, sw, out, strokes, inductionState, A, B, endPoint,
                 motionVars, sprayLog, histMove>>

W_done ==
  /\ pc = "W_done"
  /\ pc' = "W_idle"
  /\ limit' = "NONE" /\ first' = "NONE"
  /\ taps' = <<>> /\ seen' = NoSeen
  /\ UNCHANGED <<build, stack, sw, out, strokes, inductionState, A, B,
                 endPoint, motionVars, sprayLog, histMove>>

NextWaits ==
  \/ W_call_waitSecondRelease
  \/ W_done
  \/ waitRelease
  \/ waitRelease_loop
  \/ waitPress
  \/ waitPress_loop
  \/ Stop
  \/ StopBlinkHigh
  \/ StopBlinkLow
  \/ Env

\* The three waitSecondRelease of the repository, each in its revision.
SpecWaits ==
  (InitSingle \/ InitInduction \/ InitWaits)
    /\ [][NextSingle \/ NextInduction \/ NextWaits]_vars

\* C22: when waitSecondRelease(limit) has returned, the reads of the switch
\* were, in this order, open, pressed and open again: the presses observed
\* include one that began after an open read of the call, and the last
\* read was open.  The loops of the single-stepper revision are left in
\* that order only.
C22_SecondRelease ==
  /\ (variant = "single" /\ pc = "stroke_select" /\ endPoint = first) =>
       /\ taps = <<first, limit, limit>> /\ limit = other(first)
       /\ seen[limit] = 0
  /\ (variant = "induction" /\ pc = "I_horizontalStroke"
        /\ endPoint = first) =>
       /\ taps = <<first, limit, limit, limit>> /\ limit = other(first)
       /\ seen[limit] = 0
  /\ pc = "W_done" => taps = <<limit, limit>> /\ seen[limit] = 0
  /\ pc = "waitSecondRelease_2" => seen[limit] = 0
  /\ pc = "waitSecondRelease_3" => seen[limit] = 1

\* waitSecondRelease of src/limits.h has returned for the bottom switch.
C22_Witness ==
  pc = "W_done" /\ limit = "BOTTOM_LIMIT" /\ taps = <<limit, limit>>

(***************************************************************************)
(* Properties of the relay-driven vertical move.                           *)
(***************************************************************************)
\* C23: in the relay revision goUntilVertical(direction, LIMIT) does not
\* enter Stop, polls the limit switch of its direction, and ends its wait
\* only on a pressed read of that switch, with both relay outputs LOW.
C23_VerticalUntilLimit ==
  [][(variant = "relay" /\ steps = LIMIT) =>
       /\ pc = "R_goUntilVertical" => pc' # "Stop"
       /\ (pc = "R_verticalPoll" /\ pc' # pc) =>
            /\ limit = SwitchOf(direction)
            /\ sw[SwitchOf(direction)] = 1
            /\ out'[PinsRelay.MOTOR_UP] = LOW
            /\ out'[PinsRelay.MOTOR_DOWN] = LOW]_vars


\* A step of the producer of verticalCounter, as the consumer sees it.
ProducerStep ==
  /\ verticalCounter' = verticalCounter + 1
  /\ pc' = pc /\ stack' = stack /\ out' = out

BoundedRelayMove == variant = "relay" /\ steps # LIMIT /\ pc \in EncoderPcs

EnablePinOf(d) ==
  IF isVertical(d) THEN PinsMotion.VERTICAL_STEPPER_ENABLE
                   ELSE PinsMotion.HORIZONTAL_STEPPER_ENABLE

StepPinOf(d) ==
  IF isVertical(d) THEN PinsMotion.VERTICAL_STEPPER_STEP
                   ELSE PinsMotion.HORIZONTAL_STEPPER_STEP

\* C28: at the end of goUntil on a stepper axis the driver of the moved axis
\* is de-energized (enable HIGH), rests, is re-energized (enable LOW) and
\* the call returns after the debounce delay, in that order, and the step
\* output of the axis sees no edge from the de-energize to the return.
C28_RestThenResume ==
  [][(variant \in MotionVariants) =>
       /\ (pc = "M_rest" /\ pc' # pc) =>
            /\ pc' = "M_resting"
            /\ out'[EnablePinOf(direction)] = HIGH
       /\ (pc = "M_resting" /\ pc' # pc) =>
            /\ pc' = Head(stack)
            /\ out'[EnablePinOf(direction)] = LOW
       /\ pc \in {"M_rest", "M_resting"} =>
            out'[StepPinOf(direction)] = out[StepPinOf(direction)]]_vars


SprayingVerticalInduction ==
  /\ variant = "induction" /\ ~ isVertical(direction)
  /\ pc \in {"waitPress", "waitPress_loop"} /\ stack = <<"I_strokeDone">>

\* C26: while a vertical stroke of the induction-motor revision is under
\* way the valve outputs show the configuration the MIN/MAX rule gives the
\* vertical stroke counter, as a horizontal stroke's do for the horizontal
\* counter.
C26_VerticalSprayByCount ==
  SprayingVerticalInduction =>
    SprayConfiguration(out, PinsInduction)
      = ConfigurationFor(strokes.vertical, MIN_I, MAX_I)


(***************************************************************************)
(* Properties of the end of a move.                                        *)
(***************************************************************************)
\* C27: with steps = LIMIT the two loops of goUntil never end on the step
\* count: the ramp loop hands over to the cruise loop with the move still
\* under way, the cruise loop is left only on a pressed read of the limit
\* switch of the commanded direction, and a move that has reached its end
\* has read that switch pressed, however many steps were taken.
C27_SentinelNeverCounts ==
  [][(variant \in MotionVariants /\ steps = LIMIT) =>
       /\ (pc = "M_ramp" /\ pc' # pc) => pc' = "M_cruise"
       /\ (pc = "M_cruise" /\ pc' # pc) =>
            /\ pc' = "M_rest"
            /\ limit = SwitchOf(direction)
            /\ sw[limit] = 1
            /\ ~ clean'
       /\ pc' = "M_rest" => pc \in {"M_cruise", "M_rest"}]_vars

C27_Witness ==
  /\ variant \in MotionVariants /\ pc = "M_rest" /\ steps = LIMIT
  /\ pulses = MaxSteps /\ ~ clean


(***************************************************************************)
(* transition(direction) of the induction-motor revision, called for every *)
(* direction in every state of the induction motors.                       *)
(***************************************************************************)
InitTransition ==
  /\ variant = "induction"
  /\ pc = "I_strokeDone"
  /\ out = [pin \in {7, 8, 10, 11, 13} |-> LOW]
  /\ profiles = ScaledProfiles
  /\ stack = <<>>
  /\ sw \in [Switches -> {0}]
  /\ strokes = [horizontal |-> 0, vertical |-> 0]
  /\ inductionState \in {NONE, HORIZONTAL, VERTICAL}
  /\ A = 0 /\ B = 0
  /\ limit = "NONE" /\ first = "NONE" /\ endPoint = "NONE"
  /\ direction \in Directions
  /\ steps = LIMIT /\ stepsSoFar = 0 /\ mot_delay = 0
  /\ verticalCounter = 0
  /\ boundary = UP /\ i = 0 /\ p = NoProfile
  /\ taps = <<>> /\ seen = NoSeen
  /\ sprayLog = <<>>
  /\ pulses = 0 /\ delays = <<>> /\ clean = TRUE
  /\ reason = ""

SpecTransition == (InitInduction \/ InitTransition) /\ [][NextInduction]_vars

\* The energized induction motor drives the axis of the direction.
SameAxis(d, state) ==
  \/ isVertical(d) /\ state = VERTICAL
  \/ ~ isVertical(d) /\ state = HORIZONTAL

C30_TransitionTowardBoundary ==
  [][/\ (variant = "single" /\ pc = "transition"
         /\ stepsSoFar' = stepsSoFar + 1) =>
          out'[PinsSingle.STEPPER_DIRECTION] = UP_DIRECTION
     /\ (variant = "induction" /\ pc = "I_transition"
         /\ stepsSoFar' = stepsSoFar + 1) =>
          /\ limit = getLimit(direction)
          /\ out' = go_I(out, direction)]_vars


(***************************************************************************)
(* Properties of waitPressAny.                                             *)
(***************************************************************************)
\* The switch waitPressAny reads at polling position i.
PolledSwitch == limitsOf(strokeAxis(boundary))[i + 1]

\* C31: waitPressAny polls the switches of its list cyclically in list
\* order; it returns at the first pressed read, and the switch returned is
\* the one at the polling position, read pressed in that step, whatever the
\* other switch reads; it never enters the fatal stop.
C31_FirstPressedByPosition ==
  [][(variant \in MotionVariants /\ pc = "M_waitPressAny") =>
       /\ (pc' = pc /\ i' # i) =>
            /\ sw[PolledSwitch] = 0
            /\ i' = (i + 1) % 2
            /\ limit' = limit
       /\ pc' # pc =>
            /\ pc' = "M_stroke"
            /\ limit' = PolledSwitch
            /\ sw[limit'] = 1
            /\ i' = i
       /\ sw[PolledSwitch] = 1 => ~ ENABLED (M_waitPressAny /\ i' # i)
       /\ sw[PolledSwitch] = 0 => ~ ENABLED (M_waitPressAny /\ pc' # pc)
       /\ pc' \notin StopPcs]_vars

C31_Witness ==
  /\ variant \in MotionVariants /\ pc = "M_stroke"
  /\ sw["LEFT_LIMIT"] = 1 /\ sw["RIGHT_LIMIT"] = 1
  /\ i = 1 /\ limit = "RIGHT_LIMIT"


(***************************************************************************)
(* Properties of the end of a stroke of the stepper revision.              *)
(***************************************************************************)
\* The stroke of the stepper revision is in its waitPress (endPoint).
StrokeWaitsEndPoint ==
  /\ variant = "stepper" /\ pc \in {"waitPress", "waitPress_loop"}
  /\ Head(stack) = "M_strokeDone"

\* C32: in the stepper revision the waitPress (endPoint) of a stroke has no
\* precondition: it never enters the fatal stop, with the end point's switch
\* still pressed it cannot go on waiting and returns to the stroke, and the
\* stroke then turns both valves off and goes on to the transition.
C32_PressedEndPointTolerated ==
  [][(variant = "stepper") =>
       /\ (pc = "M_stroke_waitPress" /\ pc' # pc) =>
            pc' = "waitPress" /\ limit' = endPoint
       /\ StrokeWaitsEndPoint =>
            /\ limit = endPoint
            /\ pc' \in {"waitPress", "waitPress_loop", "M_strokeDone"}
       /\ (StrokeWaitsEndPoint /\ pc = "waitPress_loop" /\ sw[endPoint] = 1) =>
            /\ ~ ENABLED (waitPress_loop /\ pc' = pc)
            /\ ENABLED (waitPress_loop /\ pc' = "M_strokeDone")
       /\ (pc = "M_strokeDone" /\ pc' # pc) =>
            /\ SprayConfiguration(out', PinsStepper) = "Off"
            /\ pc' = "M_goUntil"]_vars

C32_Witness ==
  /\ variant = "stepper" /\ pc = "M_strokeDone"
  /\ endPoint = "RIGHT_LIMIT" /\ sw[endPoint] = 1
  /\ SprayConfiguration(out, PinsStepper) # "Off"


(***************************************************************************)
(* Properties of the step primitive of the stepper and relay revisions.    *)
(***************************************************************************)
\* The direction output of a direction's axis and the level go writes to it.
DirPinOf(d) ==
  IF isVertical(d) THEN PinsMotion.VERTICAL_STEPPER_DIRECTION
                   ELSE PinsMotion.HORIZONTAL_STEPPER_DIRECTION

DirLevelOf(d) ==
  CASE d = LEFT  -> LEFT_DIRECTION
    [] d = RIGHT -> RIGHT_DIRECTION
    [] d = UP    -> UP_DIRECTION
    [] d = DOWN  -> DOWN_DIRECTION

\* The step outputs are LOW: the states of the model are all outside go.
StepOutputsLow ==
  /\ out[PinsMotion.HORIZONTAL_STEPPER_STEP] = LOW
  /\ out[PinsMotion.VERTICAL_STEPPER_STEP] = LOW

\* C33: every call of go(direction, delay) is the write of the direction
\* output, then the step output HIGH, then the step output LOW, and nothing
\* else; outside go the step outputs are LOW.
C33_StepWaveform ==
  /\ [](variant \in MotionVariants => StepOutputsLow)
  /\ [][(variant \in MotionVariants /\ pulses' = pulses + 1) =>
          out' = digitalWrite(
                   digitalWrite(
                     digitalWrite(out, DirPinOf(direction),
                                  DirLevelOf(direction)),
                     StepPinOf(direction), HIGH),
                   StepPinOf(direction), LOW)]_vars


\* C34: during a move on the horizontal stepper axis the enable output of
\* the horizontal driver keeps the energized level LOW from the horizontalOn
\* at the start of goUntil to the horizontalOff at its end, and stays LOW
\* while the step output of a step is HIGH.
C34_EnabledThroughMove ==
  /\ []((variant \in MotionVariants /\ ~ isVertical(direction)
         /\ pc \in {"M_ramp", "M_cruise", "M_rest"}) =>
          out[PinsMotion.HORIZONTAL_STEPPER_ENABLE] = LOW)
  /\ [][(variant \in MotionVariants /\ ~ isVertical(direction)
         /\ pulses' = pulses + 1) =>
          pulseHigh(out, DirPinOf(direction), DirLevelOf(direction),
                    StepPinOf(direction))
            [PinsMotion.HORIZONTAL_STEPPER_ENABLE] = LOW]_vars


(***************************************************************************)
(* Properties of the valves outside the strokes.                           *)
(***************************************************************************)
\* A stroke has selected its valves and has not yet ended: its wait for the
\* end point, the step that ends it, or the fatal stop entered from that
\* wait, before Stop turns everything off.
InsideStroke ==
  CASE variant = "single" -> pc = "stroke_go"
    [] variant = "induction" ->
         \/ pc \in {"waitPress", "waitPress_loop"} /\ stack = <<"I_strokeDone">>
         \/ pc = "I_strokeDone"
         \/ pc = "Stop"
              /\ reason = "Waiting for a pressed button to be pressed...Stopping"
    [] OTHER -> FALSE

\* The control thread waits for a stroke to start or resets to a boundary.
WaitingOrResetting ==
  CASE variant = "single" -> pc \in {"loop", "paint", "waitPressAny",
                                      "strokeWait_pressed",
                                      "strokeWait_release1",
                                      "strokeWait_release2",
                                      "waitSecondRelease_1",
                                      "waitSecondRelease_2",
                                      "waitSecondRelease_3",
                                      "stroke_select"}
    [] variant = "induction" ->
         \/ pc \in {"I_loop", "I_reset2", "I_goUntil", "I_horizontalMotor",
                    "I_vertical", "I_doStrokes", "waitPressAnyOfTwo",
                    "waitPressAnyOfTwo_poll", "waitPressAnyOfTwo_release",
                    "I_horizontalStrokeWait", "I_horizontalStroke",
                    "I_verticalStroke",
                    "waitRelease", "waitRelease_loop"}
         \/ pc \in {"waitPress", "waitPress_loop"}
              /\ stack # <<"I_strokeDone">>
    [] OTHER -> FALSE

\* C35: both valves are off whenever the control thread waits for a stroke
\* to start or resets to a boundary; a valve is on only inside a stroke,
\* between its spray selection and the turnOffSprays that ends it.
C35_ValvesOffOutsideStroke ==
  LET valves == IF variant = "single"
                  THEN SprayConfiguration(out, PinsSingle)
                  ELSE SprayConfiguration(out, PinsInduction)
  IN /\ WaitingOrResetting => valves = "Off"
     /\ valves # "Off" => InsideStroke

C35_Witness ==
  /\ variant = "induction" /\ pc = "waitPressAnyOfTwo_poll"
  /\ Len(sprayLog) = 3 /\ sprayLog[3] = "Both"
  /\ SprayConfiguration(out, PinsInduction) = "Off"


(***************************************************************************)
(* Properties of the start of a stroke of the induction-motor revision.    *)
(***************************************************************************)
\* doStrokes has called horizontalStroke and horizontalStrokeWait is at the
\* entry of its first waitPressAnyOfTwo.
StrokeWaitBegins ==
  /\ variant = "induction" /\ pc = "waitPressAnyOfTwo"
  /\ stack = <<"I_horizontalStrokeWait">> /\ first = "PENDING"

\* C36: in the induction-motor revision, when horizontalStrokeWait begins
\* with LEFT_LIMIT or RIGHT_LIMIT reading pressed the program enters the
\* fatal stop instead of waiting; the wait for the next stroke starts only
\* from a read of both switches unpressed.
C36_PressedAtStrokeStartIsFatal ==
  [][(StrokeWaitBegins /\ pc' # pc) =>
       IF sw["LEFT_LIMIT"] = 1 \/ sw["RIGHT_LIMIT"] = 1
         THEN /\ pc' = "Stop"
              /\ reason' = "Waiting for buttons to be pressed when a button is already pressed"
         ELSE pc' = "waitPressAnyOfTwo_poll"]_vars

C36_Witness ==
  /\ variant = "induction" /\ pc = "Stop"
  /\ reason = "Waiting for buttons to be pressed when a button is already pressed"
  /\ first = "PENDING"
  /\ strokes.horizontal = 1 /\ endPoint = "RIGHT_LIMIT"
  /\ sw["RIGHT_LIMIT"] = 1 /\ sw["LEFT_LIMIT"] = 0


(***************************************************************************)
(* Properties of the relay outputs.                                        *)
(***************************************************************************)
\* At most one of the two relay outputs is HIGH.
AtMostOneRelay(o) ==
  ~ (o[PinsRelay.MOTOR_UP] = HIGH /\ o[PinsRelay.MOTOR_DOWN] = HIGH)

\* C37: in the relay revision MOTOR_UP and MOTOR_DOWN are never HIGH
\* together: not in any state, and not between the two writes of a
\* goVertical that reverses the direction.
C37_RelaysNeverTogether ==
  (variant = "relay") =>
    /\ AtMostOneRelay(out)
    /\ \A d \in {UP, DOWN} :
         /\ AtMostOneRelay(goVerticalFirst(out, d))
         /\ AtMostOneRelay(goVertical(out, d))
    /\ AtMostOneRelay(stopVertical(out))

C37_Witness ==
  /\ variant = "relay" /\ pc = "R_goVertical" /\ direction = UP
  /\ out[PinsRelay.MOTOR_DOWN] = HIGH


(***************************************************************************)
(* Termination of the moves and strokes of the stepper revision.           *)
(***************************************************************************)
\* The stepper revision with a control thread that keeps running: the
\* program takes a step whenever it can.
SpecStepperFair == SpecStepper /\ WF_vars(NextStepper /\ sw' = sw)

\* A call goUntil(direction, LIMIT) of the stepper revision is under way.
LimitMove ==
  /\ variant = "stepper" /\ steps = LIMIT
  /\ pc \in {"M_goUntil", "M_ramp", "M_cruise", "M_rest", "M_resting"}

\* A stroke of the stepper revision is under way, from its spray selection
\* to its turnOffSprays.
StrokeUnderWay ==
  /\ variant = "stepper"
  /\ \/ pc \in {"M_goUntil", "M_ramp", "M_cruise", "M_rest", "M_resting"}
          /\ Head(stack) = "M_stroke_waitPress"
     \/ pc = "M_stroke_waitPress"
     \/ pc \in {"waitPress", "waitPress_loop"} /\ Head(stack) = "M_strokeDone"
     \/ pc = "M_strokeDone"

\* The end point of the stroke reads pressed.
EndPointPressed == endPoint \in Switches /\ sw[endPoint] = 1

\* C38: once the limit switch of the commanded direction is pressed, a call
\* goUntil(direction, LIMIT) returns unless the switch opens again first,
\* and a stroke of the stepper revision whose end point is pressed ends with
\* both valves off, outside the fatal stop, unless the switch opens again
\* first.
C38_LimitMoveTerminates ==
  /\ (LimitMove /\ sw[SwitchOf(direction)] = 1)
       ~> (sw[SwitchOf(direction)] = 0 \/ ~ LimitMove)
  /\ (StrokeUnderWay /\ EndPointPressed)
       ~> \/ ~ EndPointPressed
          \/ /\ ~ StrokeUnderWay /\ pc \notin StopPcs
             /\ SprayConfiguration(out, PinsStepper) = "Off"

C38_Witness ==
  /\ variant = "stepper" /\ pc = "M_resting" /\ steps = LIMIT
  /\ Head(stack) = "M_stroke_waitPress"
  /\ sw[endPoint] = 1 /\ pulses = MaxSteps

=============================================================================
